---- MODULE Spec2Model ----
(***************************************************************************)
(* Error-to-recovery decision pipeline of feeding_hearts                   *)
(* (backend/django-ai-ml/error_logging/ai_error_recovery.py):              *)
(* ErrorAnalyzer.analyze_error classifies an ErrorLog and generates        *)
(* recovery actions; AutoRecoveryExecutor.execute_recovery runs them in    *)
(* priority order until one reports success.  Around them: the callers of  *)
(* the pipeline (ai_recovery_middleware.py: the middleware, manual         *)
(* recovery, the recovery context manager), the alert manager, the         *)
(* notification service (services.py), concurrent invocations and          *)
(* repeated runs of the analyzer, and the Celery tasks (error_logging/      *)
(* tasks.py, api/tasks_unified.py), each under a specification of its own: *)
(* Spec, SpecPipeline, SpecNotify, SpecWorkers, SpecRuns, SpecClassify,    *)
(* SpecRetry, SpecEvents, SpecState.                                       *)
(*                                                                         *)
(* Units: every float of the source in [0,1] (confidence, success rate)    *)
(* is modelled as an integer number of thousandths, so 0.75 is 750 and     *)
(* confidence * (1 - idx * 0.1) is confidence * (10 - idx) \div 10, which  *)
(* is exact because every confidence the analyzer computes is a multiple   *)
(* of 50 thousandths.                                                      *)
(***************************************************************************)
EXTENDS Integers, Sequences, FiniteSets, TLC

VARIABLES
    pc,         \* position of the invocation: idle, received, classified, executing, done, raised
    error_log,  \* the ErrorLog handed to ErrorAnalyzer / AutoRecoveryExecutor (or NoLog)
    analysis,   \* the dict analyze_error returned (or the one the caller supplied)
    order,      \* execute_recovery: the sorted() list being iterated, as indices into recovery_actions
    pos,        \* execute_recovery: index into order of the next loop iteration
    result,     \* execute_recovery: the result dict under construction
    invoked,    \* log of the calls of _execute_single_action: input index and executor behaviour
    stages,     \* the pipeline stages the invocation has passed, in order
    mw,         \* position of the caller of the pipeline: idle, handle_http_error, handle_exception, recovering, returned, raised
    entry,      \* which caller runs the pipeline: none, exception, http_error, manual, context
    request,    \* the HttpRequest of __call__ and what get_response did with it
    exc,        \* the type name of the exception _handle_exception is handling
    settings,   \* django.conf.settings: the recipient lists that are configured
    events,     \* the ErrorLog rows the middleware has created, with where each came from
    alert,      \* send_recovery_alert: recipient list, what send_mail did, the value returned
    recovery_result,  \* what _trigger_ai_recovery / trigger_manual_recovery returned
    ret,        \* what __call__ / __exit__ returned
    n_pc,       \* NotificationService: idle, sending, returned, raised
    n_caller,   \* who called send_notification: none, direct, notify_developers
    n_error,    \* the severity of the ErrorLog the notification is about (or "DoesNotExist")
    n_channels, \* send_notification: the channels list being iterated
    n_pos,      \* send_notification: index into n_channels of the next loop iteration
    n_results,  \* send_notification: the results dict under construction
    n_attempts, \* log of the calls of channel.send: channel name and value returned
    notifications, \* the ErrorNotification rows written
    w_pc,          \* concurrent workers: the position of each worker's invocation
    w_event,       \* the ErrorLog each worker's invocation is for (its local error_log)
    analyzer_self, \* self.error_log of each ErrorAnalyzer instance
    executor_self, \* self.error_log of each AutoRecoveryExecutor instance
    w_analysis,    \* each invocation's local analysis
    w_order,       \* each invocation's sorted() list, as indices into recovery_actions
    w_pos,         \* each invocation's index of the next loop iteration
    w_result,      \* each invocation's result dict
    w_behaviours,  \* what the strategy executors did in each invocation, in call order
    class_attrs,   \* the class attributes shared by every instance: ERROR_RECOVERY_MAP
    r_now,         \* repeated runs: the clock timezone.now() reads
    r_event,       \* the ErrorLog the analyzers are built for, error_id and timestamp included
    r_event0,      \* that ErrorLog as it was when the first analyzer was built
    r_stamp,       \* self.analysis_timestamp of the analyzer built last (NoStamp: none is built)
    r_runs,        \* the dicts analyze_error returned, in call order
    t_runs,        \* retry task: how many runs of retry_failed_notifications have ended, modulo 2
    t_outcome,     \* retry task: how the last run ended: none, returned, raised
    ev_status,     \* UnifiedEvent.status of each event row
    ev_retries,    \* self.request.retries of the process_unified_event task of each event
    ev_task,       \* the process_unified_event task of each event: none, queued, done, gave_up
    ev_update,     \* the arguments of the update_system_state.delay(..) each event's task queued
    db_state,      \* the UnifiedSystemState row with id 1: the two counters
    u_pc,          \* update_system_state on each worker: idle, loaded
    u_local,       \* the system_state object each worker loaded with get_or_create
    u_args,        \* the arguments of each worker's invocation
    u_sum          \* the sums of the arguments of the invocations started so far

\* the analyzer and the executor
exec_vars == <<pc, error_log, analysis, order, pos, result, invoked>>

\* the callers of the pipeline and the alert manager
pipeline_vars == <<mw, entry, request, exc, settings, events, alert, recovery_result, ret>>

\* the notification service
notify_vars == <<n_pc, n_caller, n_error, n_channels, n_pos, n_results, n_attempts,
                 notifications>>

\* what the analyzer, the executor and the callers of the pipeline leave alone
\* the concurrent workers
worker_vars == <<w_pc, w_event, analyzer_self, executor_self, w_analysis, w_order, w_pos,
                 w_result, w_behaviours, class_attrs>>

\* repeated runs of the analyzer
run_vars == <<r_now, r_event, r_event0, r_stamp, r_runs>>

\* the periodic retry of failed notifications
task_vars == <<t_runs, t_outcome>>

\* the processing of unified events
event_vars == <<ev_status, ev_retries, ev_task, ev_update>>

\* the system-state counters and the workers updating them
state_vars == <<db_state, u_pc, u_local, u_args, u_sum>>

\* the Celery tasks
celery_vars == <<task_vars, event_vars, state_vars>>

other_vars == <<notify_vars, worker_vars, run_vars, celery_vars>>

\* what the notification service leaves alone
non_notify_vars == <<exec_vars, stages, pipeline_vars, worker_vars, run_vars, celery_vars>>

\* what the concurrent workers leave alone
non_worker_vars == <<exec_vars, stages, pipeline_vars, notify_vars, run_vars, celery_vars>>

\* what the repeated runs leave alone
non_run_vars == <<exec_vars, stages, pipeline_vars, notify_vars, worker_vars, celery_vars>>

\* what the retry task leaves alone: everything but the ErrorNotification rows and its own state
non_task_vars == <<exec_vars, stages, pipeline_vars,
                   n_pc, n_caller, n_error, n_channels, n_pos, n_results, n_attempts,
                   worker_vars, run_vars, event_vars, state_vars>>

\* what the processing of unified events leaves alone
non_event_vars == <<exec_vars, stages, pipeline_vars, notify_vars, worker_vars, run_vars,
                    task_vars, state_vars>>

\* what update_system_state leaves alone
non_state_vars == <<exec_vars, stages, pipeline_vars, notify_vars, worker_vars, run_vars,
                    task_vars, event_vars>>

vars == <<exec_vars, stages, pipeline_vars, notify_vars, worker_vars, run_vars, celery_vars>>

\* the event rows and the workers of the Celery tasks
Events == {1, 2}

Updaters == {1, 2}

\* no Celery task has run: no retry run has ended, every event is pending with no task,
\* the counters are zero and no worker is inside update_system_state
NoTaskRan ==
    /\ t_runs = 0
    /\ t_outcome = "none"
    /\ ev_status = [e \in Events |-> "pending"]
    /\ ev_retries = [e \in Events |-> 0]
    /\ ev_task = [e \in Events |-> "none"]
    /\ ev_update = [e \in Events |-> <<>>]
    /\ db_state = [total_events_processed |-> 0, total_events_failed |-> 0]
    /\ u_pc = [w \in Updaters |-> "idle"]
    /\ u_local = [w \in Updaters |-> [total_events_processed |-> 0, total_events_failed |-> 0]]
    /\ u_args = [w \in Updaters |-> [total_events |-> 0, failed_events |-> 0]]
    /\ u_sum = [total_events |-> 0, failed_events |-> 0]

(***************************************************************************)
(* Bounds of the model.                                                    *)
(***************************************************************************)
\* largest ErrorLog.frequency drawn (the pattern threshold is 3)
MaxFreq == 5
\* longest recovery_actions list a caller hands to execute_recovery directly
MaxActions == 3

(***************************************************************************)
(* Python values.                                                          *)
(***************************************************************************)
\* the empty dict {}
NoKeys == [k \in {} |-> k]

\* dict.get(key, default)
Get(d, key, default) == IF key \in DOMAIN d THEN d[key] ELSE default

\* error_log=None
NoLog == [none |-> TRUE]

IsNone(log) == "none" \in DOMAIN log

(***************************************************************************)
(* RecoveryStrategy, RecoveryPriority and the static tables.               *)
(***************************************************************************)
RecoveryStrategy ==
    {"retry", "timeout_increase", "cache_clear", "pool_increase", "resource_scale",
     "circuit_break", "fallback", "queue_priority", "request_throttle", "service_restart"}

RecoveryPriority == [CRITICAL |-> 1, HIGH |-> 2, MEDIUM |-> 3, LOW |-> 4]

ERROR_RECOVERY_MAP ==
    [DatabaseError           |-> <<"pool_increase", "timeout_increase", "cache_clear">>,
     TimeoutError            |-> <<"timeout_increase", "resource_scale", "cache_clear">>,
     MemoryError             |-> <<"resource_scale", "cache_clear", "queue_priority">>,
     ConnectionError         |-> <<"retry", "circuit_break", "fallback">>,
     ValidationError         |-> <<"fallback", "request_throttle">>,
     AuthenticationError     |-> <<"retry", "request_throttle">>,
     APIError                |-> <<"retry", "timeout_increase", "fallback">>,
     ServiceUnavailableError |-> <<"retry", "circuit_break", "service_restart">>]

\* ErrorLog.SEVERITY_CHOICES
SEVERITY_CHOICES == {"critical", "high", "medium", "low", "info"}

\* services drawn for ErrorLog.service: two with a fallback mapping, one without
Services == {"django", "laravel", "nginx"}

\* error types drawn for ErrorLog.error_type: the table's keys and one outside it
ErrorTypes == DOMAIN ERROR_RECOVERY_MAP \cup {"UnknownType"}

ErrorLogs ==
    [error_type : ErrorTypes, service : Services,
     severity : SEVERITY_CHOICES, frequency : 1..MaxFreq]

(***************************************************************************)
(* ErrorAnalyzer.                                                          *)
(***************************************************************************)
_get_recovery_strategies(log) ==
    IF log.error_type \in DOMAIN ERROR_RECOVERY_MAP
    THEN ERROR_RECOVERY_MAP[log.error_type]
    ELSE <<"retry", "fallback">>

\* _detect_pattern with frequency >= 3 for frequency > 3
_detect_pattern_threshold_inclusive(log) ==
    IF log.severity = "critical"
    THEN [type |-> "critical_error", priority |-> "CRITICAL"]
    ELSE IF log.frequency >= 3
    THEN [type |-> "repeated_errors", priority |-> "HIGH"]
    ELSE [type |-> "None", priority |-> "None"]

\* the two tests of _detect_pattern in the other order
_detect_pattern_frequency_first(log) ==
    IF log.frequency > 3
    THEN [type |-> "repeated_errors", priority |-> "HIGH"]
    ELSE IF log.severity = "critical"
    THEN [type |-> "critical_error", priority |-> "CRITICAL"]
    ELSE [type |-> "None", priority |-> "None"]

\* None is [type |-> "None", priority |-> "None"]
_detect_pattern(log) ==
    IF log.severity = "critical"
    THEN [type |-> "critical_error", priority |-> "CRITICAL"]
    ELSE IF log.frequency > 3
    THEN [type |-> "repeated_errors", priority |-> "HIGH"]
    ELSE [type |-> "None", priority |-> "None"]

severity_multipliers == [critical |-> 250, high |-> 150, medium |-> 50, low |-> 0]

Min(a, b) == IF a <= b THEN a ELSE b

\* _calculate_confidence giving a severity outside the table the bonus of medium
_calculate_confidence_default_medium(log) ==
    LET base == 500
        known == IF log.error_type \in DOMAIN ERROR_RECOVERY_MAP THEN base + 200 ELSE base
    IN  Min(950, known + Get(severity_multipliers, log.severity, 50))

\* _calculate_confidence without the severity bonus
_calculate_confidence_no_severity(log) ==
    LET base == 500
    IN  Min(950, IF log.error_type \in DOMAIN ERROR_RECOVERY_MAP THEN base + 200 ELSE base)

\* _calculate_confidence giving the known-type bonus to every error type
_calculate_confidence_bonus_for_all(log) ==
    LET base == 500
        known == base + 200
    IN  Min(950, known + Get(severity_multipliers, log.severity, 0))

_calculate_confidence(log) ==
    LET base == 500
        known == IF log.error_type \in DOMAIN ERROR_RECOVERY_MAP THEN base + 200 ELSE base
    IN  Min(950, known + Get(severity_multipliers, log.severity, 0))

\* _get_action_priority giving CRITICAL to the first action only
_get_action_priority_critical_first_only(log, strategy, index) ==
    IF log.severity = "critical" THEN (IF index = 0 THEN "CRITICAL" ELSE "HIGH")
    ELSE IF log.severity = "high"
    THEN (IF index = 0 THEN "HIGH" ELSE "MEDIUM")
    ELSE (IF index = 0 THEN "MEDIUM" ELSE "LOW")

\* _get_action_priority with index != 0 for index == 0
_get_action_priority_index_swapped(log, strategy, index) ==
    IF log.severity = "critical" THEN "CRITICAL"
    ELSE IF log.severity = "high"
    THEN (IF index # 0 THEN "HIGH" ELSE "MEDIUM")
    ELSE (IF index # 0 THEN "MEDIUM" ELSE "LOW")

_get_action_priority(log, strategy, index) ==
    IF log.severity = "critical" THEN "CRITICAL"
    ELSE IF log.severity = "high"
    THEN (IF index = 0 THEN "HIGH" ELSE "MEDIUM")
    ELSE (IF index = 0 THEN "MEDIUM" ELSE "LOW")

_get_fallback_service(log) ==
    LET fallback_map ==
            [django |-> "laravel", laravel |-> "django", java |-> "react",
             react |-> "angular", angular |-> "vue", vue |-> "flutter",
             flutter |-> "react"]
    IN  Get(fallback_map, log.service, "api-gateway")

_get_strategy_parameters(log, strategy) ==
    LET parameters_map ==
            [retry            |-> [max_retries |-> 3, retry_delay_ms |-> 1000,
                                   exponential_backoff |-> TRUE],
             timeout_increase |-> [current_timeout_ms |-> 5000, new_timeout_ms |-> 15000,
                                   increment_percent |-> 200],
             cache_clear      |-> [cache_type |-> "redis", clear_pattern |-> "*",
                                   graceful |-> TRUE],
             pool_increase    |-> [resource |-> "db_connection_pool", current_size |-> 10,
                                   new_size |-> 25, increment_percent |-> 150],
             resource_scale   |-> [resource_type |-> "cpu", scale_factor |-> "1.5",
                                   auto_scale |-> TRUE],
             circuit_break    |-> [failure_threshold |-> 5, timeout_seconds |-> 60,
                                   half_open_requests |-> 1],
             fallback         |-> [fallback_service |-> _get_fallback_service(log),
                                   fallback_mode |-> "degraded"],
             queue_priority   |-> [current_priority |-> "normal", new_priority |-> "high",
                                   boost_factor |-> 2],
             request_throttle |-> [requests_per_minute |-> 100, burst_size |-> 10],
             service_restart  |-> [graceful |-> TRUE, timeout_seconds |-> 30,
                                   health_check |-> TRUE]]
    IN  Get(parameters_map, strategy, NoKeys)

\* the success rates written as percentages (75 for 0.75)
_estimate_success_rate_percent(strategy) ==
    LET success_rates ==
            [retry |-> 75000, timeout_increase |-> 65000, cache_clear |-> 80000,
             pool_increase |-> 85000, resource_scale |-> 80000, circuit_break |-> 90000,
             fallback |-> 95000, queue_priority |-> 70000, request_throttle |-> 65000,
             service_restart |-> 88000]
    IN  Get(success_rates, strategy, 50000)

_estimate_success_rate(strategy) ==
    LET success_rates ==
            [retry |-> 750, timeout_increase |-> 650, cache_clear |-> 800,
             pool_increase |-> 850, resource_scale |-> 800, circuit_break |-> 900,
             fallback |-> 950, queue_priority |-> 700, request_throttle |-> 650,
             service_restart |-> 880]
    IN  Get(success_rates, strategy, 500)

\* confidence * (1 + idx * 0.1)
ActionConfidence_increasing(confidence, idx) == (confidence * (10 + idx)) \div 10

\* confidence * (1 - idx * 0.1), idx counted from 0 as enumerate() does
ActionConfidence(confidence, idx) == (confidence * (10 - idx)) \div 10

\* the RecoveryAction built for strategies[k] (k from 1; enumerate's idx is k - 1)
RecoveryAction(log, strategies, confidence, k) ==
    [action_id              |-> k - 1,
     strategy               |-> strategies[k],
     priority               |-> _get_action_priority(log, strategies[k], k - 1),
     service                |-> log.service,
     error_type             |-> log.error_type,
     parameters             |-> _get_strategy_parameters(log, strategies[k]),
     confidence             |-> ActionConfidence(confidence, k - 1),
     estimated_success_rate |-> _estimate_success_rate(strategies[k])]

\* the strategies re-sorted by estimated success rate, highest first
RECURSIVE InsertByRate(_, _)
InsertByRate(s, strategy) ==
    IF s = <<>> THEN <<strategy>>
    ELSE IF _estimate_success_rate(Head(s)) >= _estimate_success_rate(strategy)
    THEN <<Head(s)>> \o InsertByRate(Tail(s), strategy)
    ELSE <<strategy>> \o s

RECURSIVE SortByRate(_, _)
SortByRate(strategies, n) ==
    IF n = 0 THEN <<>> ELSE InsertByRate(SortByRate(strategies, n - 1), strategies[n])

\* _generate_recovery_actions enumerating the strategies sorted by success rate
_generate_recovery_actions_by_success_rate(log, strategies, confidence) ==
    LET ranked == SortByRate(strategies, Len(strategies))
    IN  [k \in 1..Len(ranked) |-> RecoveryAction(log, ranked, confidence, k)]

_generate_recovery_actions(log, strategies, confidence) ==
    [k \in 1..Len(strategies) |-> RecoveryAction(log, strategies, confidence, k)]

analyze_error(log) ==
    IF IsNone(log) THEN NoKeys
    ELSE
    LET strategies    == _get_recovery_strategies(log)
        pattern_match == _detect_pattern(log)
        confidence    == _calculate_confidence(log)
        actions       == _generate_recovery_actions(log, strategies, confidence)
    IN  [error_type    |-> log.error_type,
         service       |-> log.service,
         severity      |-> log.severity,
         predicted_recovery_strategies |-> strategies,
         recovery_actions |->
             [k \in 1..Len(actions) |->
                 [strategy     |-> actions[k].strategy,
                  priority     |-> actions[k].priority,
                  confidence   |-> actions[k].confidence,
                  success_rate |-> actions[k].estimated_success_rate,
                  parameters   |-> actions[k].parameters]],
         ml_confidence |-> confidence,
         pattern_match |-> pattern_match.type,
         recommended_priority |->
             IF pattern_match.type # "None" THEN pattern_match.priority ELSE "MEDIUM"]

(***************************************************************************)
(* AutoRecoveryExecutor.                                                   *)
(***************************************************************************)
\* None as the value of a dict entry
NoResult == [none |-> TRUE]

_priority_to_number(priority_str) ==
    LET priority_map == [CRITICAL |-> 1, HIGH |-> 2, MEDIUM |-> 3, LOW |-> 4]
    IN  Get(priority_map, priority_str, 4)

\* sorted(actions, key=...) is stable: an element goes after every element
\* already placed whose key is not greater.  s and the result hold indices
\* into actions.
RECURSIVE InsertSorted(_, _, _)
InsertSorted(s, i, actions) ==
    IF s = <<>> THEN <<i>>
    ELSE IF _priority_to_number(actions[Head(s)].priority)
                <= _priority_to_number(actions[i].priority)
    THEN <<Head(s)>> \o InsertSorted(Tail(s), i, actions)
    ELSE <<i>> \o s

RECURSIVE SortPrefix(_, _)
SortPrefix(actions, n) ==
    IF n = 0 THEN <<>> ELSE InsertSorted(SortPrefix(actions, n - 1), n, actions)

\* a sort that is not stable: an element goes before the elements already
\* placed that have its key
RECURSIVE InsertBeforeEqual(_, _, _)
InsertBeforeEqual(s, i, actions) ==
    IF s = <<>> THEN <<i>>
    ELSE IF _priority_to_number(actions[Head(s)].priority)
                < _priority_to_number(actions[i].priority)
    THEN <<Head(s)>> \o InsertBeforeEqual(Tail(s), i, actions)
    ELSE <<i>> \o s

RECURSIVE SortPrefixTiesReversed(_, _)
SortPrefixTiesReversed(actions, n) ==
    IF n = 0 THEN <<>>
    ELSE InsertBeforeEqual(SortPrefixTiesReversed(actions, n - 1), n, actions)

sorted_ties_reversed(actions) == SortPrefixTiesReversed(actions, Len(actions))

\* sorted(actions, key=lambda x: self._priority_to_number(x['priority'])),
\* as the sequence of the indices of actions in iteration order
sorted_by_priority(actions) == SortPrefix(actions, Len(actions))

\* What the call self._execute_<strategy>(action_data) does.  The strategy
\* executors are the pluggable point of the design; behaviour is
\*   "shipped"          the body in the source: it logs self.error_log.service
\*                      (AttributeError when error_log is None) and returns
\*                      success True;
\*   "returns_failure"  a replacement that returns success False;
\*   "raises"           a replacement that raises.
ExecutorBehaviours == {"shipped", "returns_failure", "raises"}

shipped_message ==
    [retry |-> "Retry scheduled", timeout_increase |-> "Timeout increased",
     cache_clear |-> "Cache cleared", pool_increase |-> "Connection pool increased",
     resource_scale |-> "Resources scaled", circuit_break |-> "Circuit breaker activated",
     fallback |-> "Switched to fallback service", queue_priority |-> "Queue priority boosted",
     request_throttle |-> "Request throttling enabled",
     service_restart |-> "Service restart scheduled"]

\* shipped executors of which _execute_fallback reports failure
_execute_strategy_fallback_fails(log, strategy, behaviour) ==
    CASE behaviour = "shipped" ->
            IF IsNone(log)
            THEN [raised |-> TRUE, error |-> "AttributeError", result |-> NoResult]
            ELSE [raised |-> FALSE, error |-> "None",
                  result |-> [success |-> strategy # "fallback",
                              message |-> shipped_message[strategy]]]
      [] behaviour = "returns_failure" ->
            [raised |-> FALSE, error |-> "None",
             result |-> [success |-> FALSE, message |-> "stub failure"]]
      [] behaviour = "raises" ->
            [raised |-> TRUE, error |-> "stub error", result |-> NoResult]

_execute_strategy(log, strategy, behaviour) ==
    CASE behaviour = "shipped" ->
            IF IsNone(log)
            THEN [raised |-> TRUE, error |-> "AttributeError", result |-> NoResult]
            ELSE [raised |-> FALSE, error |-> "None",
                  result |-> [success |-> TRUE, message |-> shipped_message[strategy]]]
      [] behaviour = "returns_failure" ->
            [raised |-> FALSE, error |-> "None",
             result |-> [success |-> FALSE, message |-> "stub failure"]]
      [] behaviour = "raises" ->
            [raised |-> TRUE, error |-> "stub error", result |-> NoResult]

\* the if/elif chain of _execute_single_action: the call of the strategy's
\* executor, or the failure dict for a strategy that has none
RouteToExecutor(log, strategy, behaviour) ==
    IF strategy \in RecoveryStrategy
    THEN _execute_strategy(log, strategy, behaviour)
    ELSE [raised |-> FALSE, error |-> "None",
          result |-> [success |-> FALSE, message |-> "Unknown strategy"]]

\* _execute_single_action without its try/except: an executor's exception
\* leaves it
_execute_single_action_no_except(log, action_data, behaviour) ==
    LET strategy == action_data.strategy
        call     == RouteToExecutor(log, strategy, behaviour)
    IN  IF call.raised
        THEN [propagated |-> TRUE,
              execution  |-> [strategy |-> strategy, success |-> FALSE,
                              result |-> NoResult, error |-> "None"]]
        ELSE [propagated |-> FALSE,
              execution  |-> [strategy |-> strategy,
                              success  |-> Get(call.result, "success", FALSE),
                              result   |-> call.result, error |-> "None"]]

\* propagated: whether an exception leaves _execute_single_action; the
\* try/except Exception around the routing catches every executor exception.
_execute_single_action(log, action_data, behaviour) ==
    LET strategy == action_data.strategy
        call     == RouteToExecutor(log, strategy, behaviour)
    IN  IF call.raised
        THEN [propagated |-> FALSE,
              execution  |-> [strategy |-> strategy, success |-> FALSE,
                              result |-> NoResult, error |-> call.error]]
        ELSE [propagated |-> FALSE,
              execution  |-> [strategy |-> strategy,
                              success  |-> Get(call.result, "success", FALSE),
                              result   |-> call.result, error |-> "None"]]

\* the execution dict, with the index in recovery_actions of the action it
\* is the execution of (the identity of the action_data object)
Tagged(execution, i) ==
    [input_index |-> i, strategy |-> execution.strategy, success |-> execution.success,
     result |-> execution.result, error |-> execution.error]

\* the loop body without its break: the loop goes on after a success
LoopBody_no_break(res, action_data, i, execution, last) ==
    IF execution.success
    THEN [done   |-> last,
          result |-> [res EXCEPT
                        !.actions_executed = Append(@, Tagged(execution, i)),
                        !.recovery_success = TRUE,
                        !.recovery_message = "Recovery successful: " \o action_data.strategy]]
    ELSE [done   |-> last,
          result |-> [res EXCEPT !.actions_failed = Append(@, Tagged(execution, i))]]

\* the loop body without result['recovery_success'] = True
LoopBody_flag_not_set(res, action_data, i, execution, last) ==
    IF execution.success
    THEN [done   |-> TRUE,
          result |-> [res EXCEPT
                        !.actions_executed = Append(@, Tagged(execution, i)),
                        !.recovery_message = "Recovery successful: " \o action_data.strategy]]
    ELSE [done   |-> last,
          result |-> [res EXCEPT !.actions_failed = Append(@, Tagged(execution, i))]]

\* the loop body with the break on the wrong branch: the loop ends at the
\* first failure too
LoopBody_break_on_failure(res, action_data, i, execution, last) ==
    IF execution.success
    THEN [done   |-> TRUE,
          result |-> [res EXCEPT
                        !.actions_executed = Append(@, Tagged(execution, i)),
                        !.recovery_success = TRUE,
                        !.recovery_message = "Recovery successful: " \o action_data.strategy]]
    ELSE [done   |-> TRUE,
          result |-> [res EXCEPT !.actions_failed = Append(@, Tagged(execution, i))]]

\* one iteration of the for loop of execute_recovery, on the action at index
\* i of the input list; last: the sorted list has no action after it
LoopBody(res, action_data, i, execution, last) ==
    IF execution.success
    THEN [done   |-> TRUE,
          result |-> [res EXCEPT
                        !.actions_executed = Append(@, Tagged(execution, i)),
                        !.recovery_success = TRUE,
                        !.recovery_message = "Recovery successful: " \o action_data.strategy]]
    ELSE [done   |-> last,
          result |-> [res EXCEPT !.actions_failed = Append(@, Tagged(execution, i))]]

(***************************************************************************)
(* The invocation.                                                         *)
(***************************************************************************)
\* what a caller that builds the analysis dict itself puts in recovery_actions:
\* a known and an unknown strategy, the four priority names and an unknown one
CallerStrategies == {"retry", "bogus"}

CallerPriorities == {"CRITICAL", "HIGH", "MEDIUM", "LOW", "URGENT"}

CallerActions == [strategy : CallerStrategies, priority : CallerPriorities]

\* the workers that run invocations at the same time, which are also the
\* identities of the objects they construct
Workers == {1, 2}

\* no analyzer is built: self.analysis_timestamp does not exist
NoStamp == -1

\* no request has been handed to the middleware
NoRequest == [kind |-> "none", status |-> 0, exc_type |-> "None", header |-> "absent"]

\* send_recovery_alert has not been called
NoAlert == [attempted |-> FALSE]

\* the caller has not returned
NoReturn == [kind |-> "none", status |-> 0, suppress |-> FALSE]

\* the stage an execution report ends the execution in
Outcome(report) == IF report.recovery_success THEN "RECOVERED" ELSE "EXHAUSTED"

SampleLog ==
    [error_type |-> "APIError", service |-> "django", severity |-> "medium", frequency |-> 1]

\* nothing has run yet: everything but the ErrorNotification table
NothingRan ==
    /\ pc = "idle"
    /\ error_log = NoLog
    /\ analysis = NoKeys
    /\ order = <<>>
    /\ pos = 1
    /\ result = NoResult
    /\ invoked = <<>>
    /\ stages = <<>>
    /\ mw = "idle"
    /\ entry = "none"
    /\ request = NoRequest
    /\ exc = "None"
    /\ settings = NoKeys
    /\ events = <<>>
    /\ alert = NoAlert
    /\ recovery_result = NoKeys
    /\ ret = NoReturn
    /\ n_pc = "idle"
    /\ n_caller = "none"
    /\ n_error = "None"
    /\ n_channels = <<>>
    /\ n_pos = 1
    /\ n_results = NoKeys
    /\ n_attempts = <<>>
    /\ w_pc = [w \in Workers |-> "idle"]
    /\ w_event = [w \in Workers |-> NoLog]
    /\ analyzer_self = [w \in Workers |-> NoLog]
    /\ executor_self = [w \in Workers |-> NoLog]
    /\ w_analysis = [w \in Workers |-> NoKeys]
    /\ w_order = [w \in Workers |-> <<>>]
    /\ w_pos = [w \in Workers |-> 1]
    /\ w_result = [w \in Workers |-> NoResult]
    /\ w_behaviours = [w \in Workers |-> <<>>]
    /\ class_attrs = [ERROR_RECOVERY_MAP |-> ERROR_RECOVERY_MAP]
    /\ r_now = 0
    /\ r_event = NoLog
    /\ r_event0 = NoLog
    /\ r_stamp = NoStamp
    /\ r_runs = <<>>
    /\ NoTaskRan

Init ==
    /\ NothingRan
    /\ notifications = <<>>

\* ErrorAnalyzer(error_log): an error event arrives (or the analyzer is built without one)
ReceiveError ==
    /\ pc = "idle"
    /\ error_log' \in ErrorLogs \cup {NoLog}
    /\ pc' = "received"
    /\ UNCHANGED <<analysis, order, pos, result, invoked>>
    /\ UNCHANGED <<stages, pipeline_vars>>
    /\ UNCHANGED other_vars

\* analysis = analyzer.analyze_error()
Analyze ==
    /\ pc = "received"
    /\ analysis' = analyze_error(error_log)
    /\ pc' = "classified"
    /\ stages' = stages \o <<"CLASSIFIED", "STRATEGIES_SELECTED">>
    /\ UNCHANGED <<error_log, order, pos, result, invoked>>
    /\ UNCHANGED pipeline_vars
    /\ UNCHANGED other_vars

\* AutoRecoveryExecutor(error_log) with an analysis dict of the caller's own
CallerAnalysis ==
    /\ pc = "idle"
    /\ error_log' \in {NoLog, SampleLog}
    /\ \E n \in 0..MaxActions :
         \E actions \in [1..n -> CallerActions] :
            analysis' = [recovery_actions |-> actions]
    /\ pc' = "classified"
    /\ UNCHANGED <<order, pos, result, invoked>>
    /\ UNCHANGED <<stages, pipeline_vars>>
    /\ UNCHANGED other_vars

\* execute_recovery up to the for loop: the result dict, the early return on
\* an empty list, the sorted() call
StartRecovery ==
    /\ pc = "classified"
    /\ LET actions == Get(analysis, "recovery_actions", <<>>)
           fresh   == [actions_executed |-> <<>>, actions_failed |-> <<>>,
                       recovery_success |-> FALSE, recovery_message |-> ""]
       IN  IF actions = <<>>
           THEN /\ result' = [fresh EXCEPT
                                !.recovery_message = "No recovery actions available"]
                /\ order' = <<>>
                /\ pc' = "done"
                /\ stages' = stages \o <<"EXECUTING", "EXHAUSTED">>
           ELSE /\ result' = fresh
                /\ order' = sorted_by_priority(actions)
                /\ pc' = "executing"
                /\ stages' = Append(stages, "EXECUTING")
    /\ pos' = 1
    /\ UNCHANGED <<error_log, analysis, invoked>>
    /\ UNCHANGED pipeline_vars
    /\ UNCHANGED other_vars

\* one iteration of the for loop: _execute_single_action on the next action
\* of the sorted list, then break, continue, or fall out of the loop and return.
\* invoked records the call: which action, what its executor did (raised and
\* with what text, or the success flag it returned).
ExecuteAction ==
    /\ pc = "executing"
    /\ pos <= Len(order)
    /\ \E behaviour \in ExecutorBehaviours :
         LET i           == order[pos]
             action_data == analysis.recovery_actions[i]
             call        == RouteToExecutor(error_log, action_data.strategy, behaviour)
             single      == _execute_single_action(error_log, action_data, behaviour)
             body        == LoopBody(result, action_data, i, single.execution,
                                     pos = Len(order))
         IN  /\ invoked' = Append(invoked,
                              [input_index |-> i,
                               strategy    |-> action_data.strategy,
                               behaviour   |-> behaviour,
                               raised      |-> call.raised,
                               error       |-> call.error,
                               success     |-> ~call.raised /\ call.result.success])
             /\ IF single.propagated
                THEN /\ pc' = "raised"
                     /\ UNCHANGED <<result, pos, stages>>
                ELSE /\ result' = body.result
                     /\ pos' = pos + 1
                     /\ pc' = IF body.done THEN "done" ELSE "executing"
                     /\ stages' = IF ~body.done THEN stages
                                  ELSE Append(stages, Outcome(body.result))
    /\ UNCHANGED <<error_log, analysis, order>>
    /\ UNCHANGED pipeline_vars
    /\ UNCHANGED other_vars

Next ==
    \/ ReceiveError
    \/ Analyze
    \/ CallerAnalysis
    \/ StartRecovery
    \/ ExecuteAction

Spec == Init /\ [][Next]_vars

(***************************************************************************)
(* Properties of execute_recovery.                                         *)
(***************************************************************************)
\* the list execute_recovery reads from the analysis dict
InputActions == Get(analysis, "recovery_actions", <<>>)

\* execute_recovery has built its result dict
HasReport == "recovery_success" \in DOMAIN result

\* the input indices of a list of executions (or of the call log)
Indices(executions) == [k \in 1..Len(executions) |-> executions[k].input_index]

\* the position in priority execution order of the first call that reported
\* success (0: none did)
FirstSuccess ==
    IF \E k \in 1..Len(invoked) : invoked[k].success
    THEN CHOOSE k \in 1..Len(invoked) :
            invoked[k].success /\ \A j \in 1..(k - 1) : ~invoked[j].success
    ELSE 0

\* C1: when the first action in priority execution order that reports
\* success is the one at position i, actions_failed holds exactly the actions
\* at the positions before i, in that order, actions_executed holds exactly
\* the action at position i, and no action after position i is invoked.
C1_StopsAtFirstSuccess ==
    FirstSuccess > 0 =>
        /\ pc = "done"
        /\ Indices(invoked) = SubSeq(order, 1, FirstSuccess)
        /\ Indices(result.actions_failed) = SubSeq(order, 1, FirstSuccess - 1)
        /\ Indices(result.actions_executed) = <<order[FirstSuccess]>>
        /\ \A k \in 1..Len(result.actions_failed) : ~result.actions_failed[k].success
        /\ result.actions_executed[1].success

\* the second of three actions succeeded after the first failed: the third is
\* never invoked
C1_Witness ==
    /\ pc = "done"
    /\ Len(order) = 3
    /\ FirstSuccess = 2
    /\ Len(result.actions_failed) = 1
    /\ Len(result.actions_executed) = 1

\* C2: recovery_success is true iff at least one action executed
\* successfully, that is iff actions_executed is not empty, and
\* actions_executed never holds an execution whose success flag is false.
C2_SuccessIffExecuted ==
    HasReport =>
        /\ result.recovery_success <=> (result.actions_executed # <<>>)
        /\ result.recovery_success <=> (\E k \in 1..Len(invoked) : invoked[k].success)
        /\ \A k \in 1..Len(result.actions_executed) : result.actions_executed[k].success

\* a report of success after a failed attempt
C2_Witness ==
    /\ pc = "done"
    /\ result.recovery_success
    /\ result.actions_failed # <<>>
    /\ result.actions_executed # <<>>

\* the rank the claim gives a priority name; a name that is none of the four
\* ranks with LOW
PriorityRank(name) ==
    CASE name = "CRITICAL" -> 1
      [] name = "HIGH" -> 2
      [] name = "MEDIUM" -> 3
      [] OTHER -> 4

\* action i comes before action j in the stable sort by priority rank
BeforeInStableSort(i, j) ==
    LET ri == PriorityRank(InputActions[i].priority)
        rj == PriorityRank(InputActions[j].priority)
    IN  ri < rj \/ (ri = rj /\ i < j)

\* C3: the sequence of attempts is always a prefix of the stable sort of the
\* input list by priority rank: attempts are in ascending rank, equal ranks in
\* input order, and nothing left out comes before something attempted.
C3_AttemptsInPriorityOrder ==
    /\ \A j, k \in 1..Len(invoked) :
          j < k => BeforeInStableSort(invoked[j].input_index, invoked[k].input_index)
    /\ \A k \in 1..Len(invoked) :
          \A m \in 1..Len(InputActions) :
              (\A j \in 1..Len(invoked) : invoked[j].input_index # m)
                  => BeforeInStableSort(invoked[k].input_index, m)

\* three attempts on a list given as [LOW, CRITICAL, LOW]: the second action
\* first, then the two of equal rank in input order
C3_Witness ==
    /\ Len(invoked) = 3
    /\ Indices(invoked) = <<2, 1, 3>>
    /\ InputActions[1].priority = InputActions[3].priority

\* C4: when no executor call succeeds on a non-empty list, the report has
\* recovery_success false and no executed action, and actions_failed holds
\* every candidate action exactly once.
C4_AllFail ==
    (pc = "done" /\ InputActions # <<>> /\ FirstSuccess = 0) =>
        /\ ~result.recovery_success
        /\ result.actions_executed = <<>>
        /\ Len(result.actions_failed) = Len(InputActions)
        /\ \A m \in 1..Len(InputActions) :
              Cardinality({k \in 1..Len(result.actions_failed) :
                              result.actions_failed[k].input_index = m}) = 1
        /\ Indices(invoked) = Indices(result.actions_failed)

\* three candidates, one executor returned failure, one raised
C4_Witness ==
    /\ pc = "done"
    /\ Len(InputActions) = 3
    /\ Len(result.actions_failed) = 3
    /\ \E k \in 1..3 : invoked[k].raised
    /\ \E k \in 1..3 : ~invoked[k].raised

\* C5: an executor that raises leaves a failed attempt with the error text,
\* the loop goes on to the next action in priority order, and no exception
\* reaches the caller of execute_recovery.
C5_RaiseIsFailedAttempt ==
    /\ pc # "raised"
    /\ \A k \in 1..Len(invoked) :
          invoked[k].raised =>
              /\ k <= Len(result.actions_failed)
              /\ result.actions_failed[k].input_index = invoked[k].input_index
              /\ ~result.actions_failed[k].success
              /\ result.actions_failed[k].error = invoked[k].error
              /\ result.actions_failed[k].error # "None"
              /\ (pc = "done" /\ k < Len(order)) =>
                    (Len(invoked) > k /\ invoked[k + 1].input_index = order[k + 1])

\* the first executor raised and a second action was attempted
C5_Witness ==
    /\ Len(invoked) >= 2
    /\ invoked[1].raised
    /\ result.actions_failed[1].error = "stub error"

(***************************************************************************)
(* Properties of analyze_error.                                            *)
(***************************************************************************)
\* analysis is the dict analyze_error built from error_log
Analyzed == "ml_confidence" \in DOMAIN analysis

\* the strategies of the recovery actions, in the order of the list
ActionStrategies ==
    [k \in 1..Len(analysis.recovery_actions) |-> analysis.recovery_actions[k].strategy]

\* C6: for an error of severity critical, of any type, service and
\* frequency, the recommended priority is CRITICAL and the confidence is at
\* least 0.75.
C6_CriticalSeverity ==
    (Analyzed /\ error_log.severity = "critical") =>
        /\ analysis.recommended_priority = "CRITICAL"
        /\ analysis.ml_confidence >= 750

\* a critical error of unknown type seen more than 3 times: confidence 0.75
C6_Witness ==
    /\ Analyzed
    /\ error_log.severity = "critical"
    /\ error_log.error_type = "UnknownType"
    /\ error_log.frequency > 3
    /\ analysis.ml_confidence = 750

\* C7: the candidate strategies and the recovery actions are in the order of
\* the table's entry for the error type; for a type that is not in the table
\* they are retry then fallback.
C7_TableOrder ==
    Analyzed =>
        LET expected == IF error_log.error_type \in DOMAIN ERROR_RECOVERY_MAP
                        THEN ERROR_RECOVERY_MAP[error_log.error_type]
                        ELSE <<"retry", "fallback">>
        IN  /\ analysis.predicted_recovery_strategies = expected
            /\ ActionStrategies = expected
            /\ error_log.error_type = "UnknownType" => ActionStrategies = <<"retry", "fallback">>

\* a type whose table order is the reverse of the success-rate order
C7_Witness ==
    /\ Analyzed
    /\ error_log.error_type = "ConnectionError"
    /\ ActionStrategies = <<"retry", "circuit_break", "fallback">>

\* C8: the confidence of the k-th action (from 0) is the base confidence
\* times (1 - 0.1 k); it does not increase with k and is never negative.
C8_ConfidenceDecay ==
    Analyzed =>
        \A k \in 1..Len(analysis.recovery_actions) :
            /\ 10 * analysis.recovery_actions[k].confidence
                   = analysis.ml_confidence * (10 - (k - 1))
            /\ analysis.recovery_actions[k].confidence >= 0
            /\ k > 1 => analysis.recovery_actions[k].confidence
                            <= analysis.recovery_actions[k - 1].confidence

\* base 0.95 and three actions: 0.95, 0.855, 0.76
C8_Witness ==
    /\ Analyzed
    /\ analysis.ml_confidence = 950
    /\ Len(analysis.recovery_actions) = 3
    /\ analysis.recovery_actions[2].confidence = 855
    /\ analysis.recovery_actions[3].confidence = 760

\* C9: every recovery action has an estimated success rate in [0,1] and a
\* confidence in [0,1].
C9_RatesInUnitInterval ==
    Analyzed =>
        \A k \in 1..Len(analysis.recovery_actions) :
            /\ analysis.recovery_actions[k].success_rate \in 0..1000
            /\ analysis.recovery_actions[k].confidence \in 0..1000

\* the largest values: fallback's rate 0.95 on an action of confidence 0.95
C9_Witness ==
    /\ Analyzed
    /\ \E k \in 1..Len(analysis.recovery_actions) :
          /\ analysis.recovery_actions[k].success_rate = 950
          /\ analysis.recovery_actions[k].confidence = 950

(***************************************************************************)
(* The end-to-end scenario {django, ConnectionError, high, frequency 1}.   *)
(***************************************************************************)
ScenarioHigh ==
    /\ Analyzed
    /\ error_log.service = "django"
    /\ error_log.error_type = "ConnectionError"
    /\ error_log.severity = "high"
    /\ error_log.frequency = 1

\* the executor's part of the scenario: retry is tried first, and when it
\* fails and circuit_break succeeds the report has one failed and one
\* successful action and recovery_success true
ScenarioHighExecution ==
    /\ invoked # <<>> => invoked[1].strategy = "retry"
    /\ (Len(invoked) >= 2 /\ ~invoked[1].success /\ invoked[2].success) =>
          /\ invoked[2].strategy = "circuit_break"
          /\ pc = "done"
          /\ Len(result.actions_failed) = 1
          /\ result.actions_failed[1].strategy = "retry"
          /\ Len(result.actions_executed) = 1
          /\ result.actions_executed[1].strategy = "circuit_break"
          /\ result.recovery_success

\* C10 as stated: candidates [retry, circuit_break, fallback] and priority
\* HIGH from the classifier; retry tried first; retry failing and
\* circuit_break succeeding give 1 failed, 1 successful, overall success.
C10_AsStated ==
    ScenarioHigh =>
        /\ analysis.predicted_recovery_strategies = <<"retry", "circuit_break", "fallback">>
        /\ analysis.recommended_priority = "HIGH"
        /\ ScenarioHighExecution

\* C10 amended: the classifier's recommended priority is MEDIUM (no pattern
\* is detected) and it is the first action, retry, that has priority HIGH;
\* the rest as stated.
C10_Amended ==
    ScenarioHigh =>
        /\ analysis.predicted_recovery_strategies = <<"retry", "circuit_break", "fallback">>
        /\ analysis.recommended_priority = "MEDIUM"
        /\ analysis.recovery_actions[1].strategy = "retry"
        /\ analysis.recovery_actions[1].priority = "HIGH"
        /\ ScenarioHighExecution

\* the scenario run with retry returning failure and circuit_break as shipped
C10_Witness ==
    /\ ScenarioHigh
    /\ pc = "done"
    /\ Len(invoked) = 2
    /\ invoked[1].behaviour = "returns_failure"
    /\ invoked[2].behaviour = "shipped"
    /\ result.recovery_success

(***************************************************************************)
(* The end-to-end scenario {laravel, UnknownType, low, frequency 1}.       *)
(***************************************************************************)
ScenarioLow ==
    /\ Analyzed
    /\ error_log.service = "laravel"
    /\ error_log.error_type = "UnknownType"
    /\ error_log.severity = "low"
    /\ error_log.frequency = 1

\* C11 as stated: candidates [retry, fallback], confidence 0.5 and priority
\* LOW from the classifier.
C11_AsStated ==
    ScenarioLow =>
        /\ analysis.predicted_recovery_strategies = <<"retry", "fallback">>
        /\ analysis.ml_confidence = 500
        /\ analysis.recommended_priority = "LOW"

\* C11 amended: candidates [retry, fallback] and confidence 0.5; the
\* classifier's recommended priority is the MEDIUM default, the first action
\* (retry) has priority MEDIUM and only the second (fallback) has priority LOW.
C11_Amended ==
    ScenarioLow =>
        /\ analysis.predicted_recovery_strategies = <<"retry", "fallback">>
        /\ ActionStrategies = <<"retry", "fallback">>
        /\ analysis.ml_confidence = 500
        /\ analysis.pattern_match = "None"
        /\ analysis.recommended_priority = "MEDIUM"
        /\ analysis.recovery_actions[1].priority = "MEDIUM"
        /\ analysis.recovery_actions[2].priority = "LOW"

\* the scenario, classified
C11_Witness ==
    /\ ScenarioLow
    /\ pc = "classified"
    /\ Len(analysis.recovery_actions) = 2

(***************************************************************************)
(* The callers of the pipeline (ai_recovery_middleware.py) and the alert   *)
(* manager (ErrorAlertManager of ai_error_recovery.py).                    *)
(***************************************************************************)
\* longest recipient list configured in settings
MaxRecipients == 2

\* the addresses the configured lists are built from
Addresses == {"admin@feedinghearts.com", "oncall@feedinghearts.com"}

\* the lists of at most MaxRecipients addresses, repetitions included
RecipientLists == UNION {[1..n -> Addresses] : n \in 0..MaxRecipients}

SettingKeys == {"ERROR_ALERT_RECIPIENTS", "ERROR_ESCALATION_RECIPIENTS"}

\* the settings modules: each of the two lists is configured or left out
Settings == UNION {[K -> RecipientLists] : K \in SUBSET SettingKeys}

\* the elements of a list
Range(seq) == {seq[k] : k \in 1..Len(seq)}

\* list(set(...)): the elements once each, in an order the hash table decides
Orderings(S) ==
    {seq \in [1..Cardinality(S) -> S] :
        \A i, j \in 1..Cardinality(S) : i # j => seq[i] # seq[j]}

\* _get_recipients escalating for critical severity only
_get_recipients_critical_only(an, conf) ==
    LET default_recipients ==
            Get(conf, "ERROR_ALERT_RECIPIENTS", <<"admin@feedinghearts.com">>)
    IN  IF Get(an, "severity", "None") \in {"critical"}
        THEN Orderings({default_recipients[k] : k \in 1..Len(default_recipients)}
                       \cup LET esc == Get(conf, "ERROR_ESCALATION_RECIPIENTS", <<>>)
                            IN  {esc[k] : k \in 1..Len(esc)})
        ELSE {default_recipients}

\* _get_recipients without the set(): the two lists joined as they are
_get_recipients_concatenated(an, conf) ==
    LET default_recipients ==
            Get(conf, "ERROR_ALERT_RECIPIENTS", <<"admin@feedinghearts.com">>)
    IN  IF Get(an, "severity", "None") \in {"critical", "high"}
        THEN {default_recipients \o Get(conf, "ERROR_ESCALATION_RECIPIENTS", <<>>)}
        ELSE {default_recipients}

\* ErrorAlertManager._get_recipients: the lists it can return
_get_recipients(an, conf) ==
    LET default_recipients ==
            Get(conf, "ERROR_ALERT_RECIPIENTS", <<"admin@feedinghearts.com">>)
    IN  IF Get(an, "severity", "None") \in {"critical", "high"}
        THEN LET escalation_recipients ==
                     Get(conf, "ERROR_ESCALATION_RECIPIENTS", <<>>)
             IN  Orderings(Range(default_recipients \o escalation_recipients))
        ELSE {default_recipients}

\* what django.core.mail.send_mail does with fail_silently=False
MailOutcomes == {"sent", "raises"}

\* send_recovery_alert without its try/except: the exception of send_mail leaves it
send_recovery_alert_no_except(recipients, mail) ==
    IF recipients = <<>>
    THEN [returned |-> FALSE, propagated |-> FALSE, mail |-> "not_called"]
    ELSE [returned |-> mail = "sent", propagated |-> mail = "raises", mail |-> mail]

\* ErrorAlertManager.send_recovery_alert: the value returned, whether an
\* exception left the method, and what send_mail did
send_recovery_alert(recipients, mail) ==
    IF recipients = <<>>
    THEN [returned |-> FALSE, propagated |-> FALSE, mail |-> "not_called"]
    ELSE [returned |-> mail = "sent", propagated |-> FALSE, mail |-> mail]

\* the status codes the wrapped handler answers with
StatusCodes == {200, 404, 500}

\* the exceptions the wrapped handler (or the block under the context manager)
\* raises: one of each severity class of _determine_severity
HandlerExceptions == {"DatabaseError", "ConnectionError", "ValueError", "OperationalError"}

\* the X-Service header of the request: absent, a valid service, an invalid one
Headers == {"absent", "laravel", "bogus"}

\* a request together with what get_response does with it
Requests ==
    [kind : {"response"}, status : StatusCodes, exc_type : {"None"}, header : Headers]
    \cup
    [kind : {"raises"}, status : {0}, exc_type : HandlerExceptions, header : Headers]

\* ErrorLog.objects.create: the row is written, or the database raises
DbOutcomes == {"created", "raises"}

\* the exception the database raises (django.db.utils.OperationalError)
DbException == "OperationalError"

\* f'HTTP{status_code}'
HttpErrorType(status_code) ==
    CASE status_code = 404 -> "HTTP404"
      [] status_code = 500 -> "HTTP500"
      [] OTHER             -> "HTTP"

\* _handle_http_error: the severity of an error response
HttpSeverity(status_code) ==
    IF status_code >= 500 THEN "critical"
    ELSE IF status_code >= 400 THEN "medium"
    ELSE "low"

\* a middleware that runs the recovery for every error response
TriggersRecovery_any_error(status_code) == status_code >= 400

\* _handle_http_error: "Trigger recovery for severe errors"
TriggersRecovery(status_code) == status_code >= 500

_determine_severity(error_type) ==
    IF error_type \in {"DatabaseError", "OutOfMemoryError", "SystemError", "AssertionError"}
    THEN "critical"
    ELSE IF error_type \in {"TimeoutError", "ConnectionError", "IOError", "OSError"}
    THEN "high"
    ELSE IF error_type \in {"ValueError", "KeyError", "AttributeError", "TypeError"}
    THEN "medium"
    ELSE "low"

_get_service_from_request(req) ==
    LET service == IF req.header = "absent" THEN "django" ELSE req.header
    IN  IF service \in {"django", "laravel", "java", "react",
                        "angular", "vue", "flutter", "nginx"}
        THEN service
        ELSE "django"

_get_status_code(error_type, severity) ==
    IF severity = "critical" THEN 500
    ELSE IF severity = "high" THEN 503
    ELSE 400

\* the row ErrorLog.objects.create writes (frequency takes the field's default)
CreatedLog(service, error_type, severity) ==
    [error_type |-> error_type, service |-> service,
     severity |-> severity, frequency |-> 1]

\* the rows trigger_manual_recovery can find: a mapped and an unmapped error
\* type, every severity, a first and a repeated occurrence
StoredLogs ==
    {log \in ErrorLogs :
        /\ log.service = "django"
        /\ log.error_type \in {"ConnectionError", "UnknownType"}
        /\ log.frequency \in {1, MaxFreq}}

\* the dict _trigger_ai_recovery returns after the three steps
TriggerResult(execution) ==
    [attempted |-> TRUE,
     success   |-> execution.recovery_success,
     message   |-> execution.recovery_message,
     actions   |-> [k \in 1..Len(execution.actions_executed) |->
                      [strategy |-> execution.actions_executed[k].strategy,
                       success  |-> execution.actions_executed[k].success]]]

\* the dict of its except branch
TriggerFailed ==
    [attempted |-> FALSE, success |-> FALSE,
     message |-> "Recovery failed", actions |-> <<>>]

\* what the pipeline hands back to its caller: _trigger_ai_recovery's dict,
\* trigger_manual_recovery's dict
PipelineReturn(caller, execution, failed) ==
    IF caller = "manual"
    THEN IF failed THEN [success |-> FALSE, error |-> "exception"]
         ELSE [success |-> TRUE, recovery |-> execution]
    ELSE IF failed THEN TriggerFailed ELSE TriggerResult(execution)

\* what the caller of the pipeline returns in its turn
CallerReturn(caller, req, log) ==
    CASE caller = "exception" ->
             [kind |-> "JsonResponse",
              status |-> _get_status_code(log.error_type, log.severity),
              suppress |-> FALSE]
      [] caller = "http_error" ->
             [kind |-> "handler_response", status |-> req.status, suppress |-> FALSE]
      [] OTHER ->
             [kind |-> "dict", status |-> 0, suppress |-> FALSE]

InitPipeline ==
    /\ pc = "idle"
    /\ error_log = NoLog
    /\ analysis = NoKeys
    /\ order = <<>>
    /\ pos = 1
    /\ result = NoResult
    /\ invoked = <<>>
    /\ stages = <<>>
    /\ mw = "idle"
    /\ entry = "none"
    /\ request = NoRequest
    /\ exc = "None"
    /\ settings \in Settings
    /\ events = <<>>
    /\ alert = NoAlert
    /\ recovery_result = NoKeys
    /\ ret = NoReturn
    /\ n_pc = "idle"
    /\ n_caller = "none"
    /\ n_error = "None"
    /\ n_channels = <<>>
    /\ n_pos = 1
    /\ n_results = NoKeys
    /\ n_attempts = <<>>
    /\ notifications = <<>>
    /\ w_pc = [w \in Workers |-> "idle"]
    /\ w_event = [w \in Workers |-> NoLog]
    /\ analyzer_self = [w \in Workers |-> NoLog]
    /\ executor_self = [w \in Workers |-> NoLog]
    /\ w_analysis = [w \in Workers |-> NoKeys]
    /\ w_order = [w \in Workers |-> <<>>]
    /\ w_pos = [w \in Workers |-> 1]
    /\ w_result = [w \in Workers |-> NoResult]
    /\ w_behaviours = [w \in Workers |-> <<>>]
    /\ class_attrs = [ERROR_RECOVERY_MAP |-> ERROR_RECOVERY_MAP]
    /\ r_now = 0
    /\ r_event = NoLog
    /\ r_event0 = NoLog
    /\ r_stamp = NoStamp
    /\ r_runs = <<>>
    /\ NoTaskRan

\* AIErrorRecoveryMiddleware.__call__: get_response runs, then the dispatch
CallMiddleware ==
    /\ mw = "idle"
    /\ \E req \in Requests :
         /\ request' = req
         /\ entry' = "middleware"
         /\ IF req.kind = "raises"
            THEN /\ mw' = "handle_exception"
                 /\ exc' = req.exc_type
                 /\ ret' = ret
            ELSE IF req.status >= 400
            THEN /\ mw' = "handle_http_error"
                 /\ UNCHANGED <<exc, ret>>
            ELSE /\ mw' = "returned"
                 /\ ret' = [kind |-> "handler_response", status |-> req.status,
                            suppress |-> FALSE]
                 /\ exc' = exc
    /\ UNCHANGED <<exec_vars, stages, settings, events, alert, recovery_result>>
    /\ UNCHANGED other_vars

\* _handle_http_error: _create_error_log, then the recovery for status >= 500
\* and the return of the handler's response; an exception of the database is
\* re-raised by _create_error_log and lands in the except clause of __call__
HandleHttpError ==
    /\ mw = "handle_http_error"
    /\ \E db \in DbOutcomes :
         IF db = "raises"
         THEN /\ mw' = "handle_exception"
              /\ exc' = DbException
              /\ UNCHANGED <<pc, error_log, stages, entry, events, ret>>
         ELSE LET status_code == request.status
                  log == CreatedLog(_get_service_from_request(request),
                                    HttpErrorType(status_code),
                                    HttpSeverity(status_code))
              IN  /\ error_log' = log
                  /\ events' = Append(events, [source |-> "http_error",
                                               status |-> status_code])
                  /\ exc' = exc
                  /\ IF TriggersRecovery(status_code)
                     THEN /\ entry' = "http_error"
                          /\ pc' = "received"
                          /\ stages' = <<"RECEIVED">>
                          /\ mw' = "recovering"
                          /\ ret' = ret
                     ELSE /\ mw' = "returned"
                          /\ ret' = [kind |-> "handler_response",
                                     status |-> status_code, suppress |-> FALSE]
                          /\ UNCHANGED <<entry, pc, stages>>
    /\ UNCHANGED <<analysis, order, pos, result, invoked>>
    /\ UNCHANGED <<request, settings, alert, recovery_result>>
    /\ UNCHANGED other_vars

\* _handle_exception up to the call of _trigger_ai_recovery: an exception of
\* the database is re-raised by _create_error_log and leaves __call__
HandleException ==
    /\ mw = "handle_exception"
    /\ \E db \in DbOutcomes :
         IF db = "raises"
         THEN /\ mw' = "raised"
              /\ UNCHANGED <<pc, error_log, stages, entry, events>>
         ELSE /\ error_log' = CreatedLog(_get_service_from_request(request),
                                         exc, _determine_severity(exc))
              /\ events' = Append(events, [source |-> "exception", status |-> 0])
              /\ entry' = "exception"
              /\ pc' = "received"
              /\ stages' = <<"RECEIVED">>
              /\ mw' = "recovering"
    /\ UNCHANGED <<analysis, order, pos, result, invoked>>
    /\ UNCHANGED <<request, exc, settings, alert, recovery_result, ret>>
    /\ UNCHANGED other_vars

\* trigger_manual_recovery up to the analysis: ErrorLog.objects.get
ManualRecovery ==
    /\ mw = "idle"
    /\ entry' = "manual"
    /\ \/ \E log \in StoredLogs :
            /\ error_log' = log
            /\ pc' = "received"
            /\ stages' = <<"RECEIVED">>
            /\ mw' = "recovering"
            /\ UNCHANGED <<recovery_result, ret>>
       \/ /\ mw' = "returned"
          /\ recovery_result' = [success |-> FALSE, error |-> "Error not found"]
          /\ ret' = [kind |-> "dict", status |-> 0, suppress |-> FALSE]
          /\ UNCHANGED <<pc, error_log, stages>>
    /\ UNCHANGED <<analysis, order, pos, result, invoked>>
    /\ UNCHANGED <<request, exc, settings, events, alert>>
    /\ UNCHANGED other_vars

\* ErrorRecoveryContextManager.__exit__ up to the analysis
ContextExit ==
    /\ mw = "idle"
    /\ entry' = "context"
    /\ \E exc_type \in HandlerExceptions \cup {"None"}, db \in DbOutcomes :
         /\ exc' = exc_type
         /\ IF exc_type = "None" \/ db = "raises"
            THEN /\ mw' = "returned"
                 /\ ret' = [kind |-> "bool", status |-> 0, suppress |-> FALSE]
                 /\ UNCHANGED <<pc, error_log, stages>>
            ELSE /\ error_log' = CreatedLog("django", exc_type, "high")
                 /\ pc' = "received"
                 /\ stages' = <<"RECEIVED">>
                 /\ mw' = "recovering"
                 /\ ret' = ret
    /\ UNCHANGED <<analysis, order, pos, result, invoked>>
    /\ UNCHANGED <<request, settings, events, alert, recovery_result>>
    /\ UNCHANGED other_vars

\* the rest of _trigger_ai_recovery and of trigger_manual_recovery after
\* execute_recovery: send_recovery_alert, the dict returned, and the return
\* of the caller (the JsonResponse of _handle_exception, the handler's
\* response after _handle_http_error)
AlertAndReturn ==
    /\ mw = "recovering"
    /\ entry \in {"exception", "http_error", "manual"}
    /\ pc \in {"done", "raised"}
    /\ IF pc = "raised"
       THEN /\ recovery_result' = PipelineReturn(entry, result, TRUE)
            /\ stages' = Append(stages, "DONE")
            /\ alert' = alert
       ELSE \E recipients \in _get_recipients(analysis, settings),
               mail \in MailOutcomes :
              LET sent == send_recovery_alert(recipients, mail)
              IN  /\ alert' = [attempted  |-> TRUE,
                               recipients |-> recipients,
                               mail       |-> sent.mail,
                               returned   |-> sent.returned,
                               raised     |-> sent.propagated]
                  /\ recovery_result' = PipelineReturn(entry, result, sent.propagated)
                  /\ stages' = stages \o <<"ALERTED", "DONE">>
    /\ ret' = CallerReturn(entry, request, error_log)
    /\ mw' = "returned"
    /\ UNCHANGED <<exec_vars, entry, request, exc, settings, events>>
    /\ UNCHANGED other_vars

\* an __exit__ that suppresses the exception whenever the recovery ran
SuppressException_whenever_run(position, execution) == position = "done"

\* __exit__: return execution['recovery_success'], or False from the except
\* clause when execute_recovery raised
SuppressException(position, execution) ==
    position = "done" /\ execution.recovery_success

\* the rest of __exit__ after execute_recovery: the exception is suppressed
\* when the recovery succeeded
ContextReturn ==
    /\ mw = "recovering"
    /\ entry = "context"
    /\ pc \in {"done", "raised"}
    /\ ret' = [kind |-> "bool", status |-> 0,
               suppress |-> SuppressException(pc, result)]
    /\ stages' = Append(stages, "DONE")
    /\ mw' = "returned"
    /\ UNCHANGED <<exec_vars, entry, request, exc, settings, events, alert,
                   recovery_result>>
    /\ UNCHANGED other_vars

NextPipeline ==
    \/ CallMiddleware
    \/ HandleHttpError
    \/ HandleException
    \/ ManualRecovery
    \/ ContextExit
    \/ Analyze
    \/ StartRecovery
    \/ ExecuteAction
    \/ AlertAndReturn
    \/ ContextReturn

SpecPipeline == InitPipeline /\ [][NextPipeline]_vars

(***************************************************************************)
(* Properties of the callers and of the alert manager.                     *)
(***************************************************************************)
\* the default recipients _get_recipients reads from settings
DefaultRecipients ==
    Get(settings, "ERROR_ALERT_RECIPIENTS", <<"admin@feedinghearts.com">>)

\* no entry of the list occurs twice
NoDuplicates(seq) == \A i, j \in 1..Len(seq) : i # j => seq[i] # seq[j]

\* C12: for an event of critical severity the recipient list _get_recipients
\* returns contains every default recipient and holds no entry twice,
\* whatever the configured default and escalation lists are, overlapping
\* lists included.
C12_CriticalRecipients ==
    (alert.attempted /\ analysis.severity = "critical") =>
        /\ Range(DefaultRecipients) \subseteq Range(alert.recipients)
        /\ NoDuplicates(alert.recipients)

\* a critical event alerted under a default and an escalation list that overlap
C12_Witness ==
    /\ alert.attempted
    /\ analysis.severity = "critical"
    /\ DOMAIN settings = SettingKeys
    /\ Len(settings["ERROR_ALERT_RECIPIENTS"]) = 2
    /\ Range(settings["ERROR_ALERT_RECIPIENTS"])
         \cap Range(settings["ERROR_ESCALATION_RECIPIENTS"]) # {}
    /\ Len(alert.recipients) = 2

\* the pipeline ran and its caller has returned
PipelineDone == mw = "returned" /\ stages # <<>>

\* the two complete stage sequences
FullStages(outcome) ==
    <<"RECEIVED", "CLASSIFIED", "STRATEGIES_SELECTED", "EXECUTING", outcome,
      "ALERTED", "DONE">>

\* C13 as stated: every invocation of the pipeline, from the middleware, from
\* manual recovery or from the recovery context manager, passes RECEIVED,
\* CLASSIFIED, STRATEGIES_SELECTED, EXECUTING, RECOVERED or EXHAUSTED,
\* ALERTED, DONE in this order, none skipped and none repeated; the alert is
\* attempted after the execution whether it recovered or not.
C13_StagesInOrder ==
    PipelineDone =>
        /\ stages \in {FullStages("RECOVERED"), FullStages("EXHAUSTED")}
        /\ alert.attempted

\* the number of runs of the pipeline that were started
Runs == Cardinality({k \in 1..Len(stages) : stages[k] = "CLASSIFIED"})

\* __call__ has ended, by a return or by an exception
MiddlewareEnded ==
    /\ entry \in {"middleware", "exception", "http_error"}
    /\ mw \in {"returned", "raised"}

\* C14 as stated: every ErrorEvent the middleware records, from a caught
\* exception or from a response of status >= 400, triggers exactly one run of
\* the pipeline.
C14_AsStated ==
    MiddlewareEnded => Runs = Len(events)

\* C14 amended: a call of the middleware records at most one ErrorEvent; one
\* recorded from a caught exception or from a response of status >= 500
\* triggers exactly one run of the pipeline, one recorded from a response of
\* status 400..499 triggers none.
C14_Amended ==
    MiddlewareEnded =>
        /\ Len(events) <= 1
        /\ \A k \in 1..Len(events) :
             Runs = IF events[k].source = "exception" \/ events[k].status >= 500
                    THEN 1 ELSE 0

\* a response of status 500 was recorded and the pipeline ran once for it
C14_Witness ==
    /\ MiddlewareEnded
    /\ events = <<[source |-> "http_error", status |-> 500]>>
    /\ Runs = 1
    /\ ret.kind = "handler_response"

\* C15 as stated: no failure of the pipeline is fatal: __call__ always returns
\* an HTTP response and never lets an exception out, and a handler response
\* that carries an error status is returned unchanged.
C15_NeverFatal ==
    /\ entry \in {"middleware", "exception", "http_error"} => mw # "raised"
    /\ (MiddlewareEnded /\ request.kind = "response") =>
           ret = [kind |-> "handler_response", status |-> request.status,
                  suppress |-> FALSE]

\* C16: when the dispatch of the alert fails (send_mail raises, or there is
\* no recipient) send_recovery_alert returns false without raising, and the
\* pipeline still returns the outcome of the execution as the executor
\* produced it.
C16_AlertFailureNotFatal ==
    (mw = "returned" /\ alert.attempted /\ alert.mail \in {"raises", "not_called"}) =>
        /\ ~alert.raised
        /\ ~alert.returned
        /\ IF entry = "manual"
           THEN /\ recovery_result.success
                /\ recovery_result.recovery = result
           ELSE /\ recovery_result.attempted
                /\ recovery_result.success = result.recovery_success
                /\ recovery_result.message = result.recovery_message
                /\ Len(recovery_result.actions) = Len(result.actions_executed)
                /\ \A k \in 1..Len(recovery_result.actions) :
                     /\ recovery_result.actions[k].strategy
                          = result.actions_executed[k].strategy
                     /\ recovery_result.actions[k].success
                          = result.actions_executed[k].success

\* send_mail raised after a recovery that succeeded on its second attempt
C16_Witness ==
    /\ mw = "returned"
    /\ entry = "exception"
    /\ alert.attempted
    /\ alert.mail = "raises"
    /\ result.recovery_success
    /\ Len(result.actions_failed) = 1
    /\ Len(recovery_result.actions) = 1

(***************************************************************************)
(* The notification service (error_logging/services.py).                   *)
(***************************************************************************)
\* longest channels list a caller hands to send_notification
MaxChannels == 2

\* NotificationService.__init__: the names of the channels it knows
channels == {"email", "slack", "sms", "webhook"}

\* the names a caller can ask for: the known ones and an unknown one
ChannelNames == channels \cup {"pager"}

\* the channels argument of send_notification: a list, or None
RequestedChannels ==
    [given : {TRUE}, list : UNION {[1..n -> ChannelNames] : n \in 0..MaxChannels}]
    \cup {[given |-> FALSE, list |-> <<>>]}

\* notify_developers: the preferred_channels dict
preferred_channels ==
    [severity \in SEVERITY_CHOICES |->
        CASE severity = "critical" -> <<"email", "slack", "sms">>
          [] severity = "high"     -> <<"email", "slack">>
          [] OTHER                 -> <<"email">>]

\* a selection that sends a critical error on every channel
SelectChannels_all_for_critical(severity) ==
    IF severity = "critical" THEN <<"email", "slack", "sms", "webhook">>
    ELSE Get(preferred_channels, severity, <<"email">>)

\* notify_developers: preferred_channels.get(error.severity, ['email'])
SelectChannels(severity) == Get(preferred_channels, severity, <<"email">>)

\* the severities of the errors notify_developers is called for: the choices
\* of the model and a value outside them
NotifySeverities == SEVERITY_CHOICES \cup {"unknown"}

\* the fields of the ErrorNotification model (with those of TimeStampedModel)
ErrorNotificationFields ==
    {"id", "created", "modified", "notification_id", "error",
     "recipient_name", "recipient_email", "recipient_phone", "recipient_slack_id",
     "channel", "status", "delivered_at", "read_at", "retry_count", "error_message"}

\* the keyword arguments send_notification passes to ErrorNotification.objects.create
CreateKwargs(success) ==
    {"error", "recipient", "channel", "status", "message_subject", "message_body"}
    \cup (IF success THEN {} ELSE {"failure_reason"})

\* Model.__init__ raises TypeError on a keyword that is not a field
ModelAccepts(kwargs) == kwargs \subseteq ErrorNotificationFields

\* results[channel_name] = success
Put(d, key, value) ==
    [k \in DOMAIN d \cup {key} |-> IF k = key THEN value ELSE d[k]]

\* send_notification called by a caller of its own, up to the for loop
SendNotification ==
    /\ n_pc = "idle"
    /\ n_caller' = "direct"
    /\ \E found \in BOOLEAN, requested \in RequestedChannels :
         IF ~found
         THEN /\ n_error' = "DoesNotExist"
              /\ n_results' = [error |-> "Error not found"]
              /\ n_pc' = "returned"
              /\ n_channels' = n_channels
         ELSE /\ n_error' = "high"
              /\ n_channels' = IF requested.given THEN requested.list
                               ELSE <<"email", "slack">>
              /\ n_results' = NoKeys
              /\ n_pc' = IF requested.given /\ requested.list = <<>>
                         THEN "returned" ELSE "sending"
    /\ UNCHANGED <<n_pos, n_attempts, notifications>>
    /\ UNCHANGED non_notify_vars

\* notify_developers up to the call of send_notification for the developer
\* on call (or its return when nobody is)
NotifyDevelopers ==
    /\ n_pc = "idle"
    /\ n_caller' = "notify_developers"
    /\ \/ /\ n_error' = "DoesNotExist"
          /\ n_results' = [error |-> "Error not found"]
          /\ n_pc' = "returned"
          /\ n_channels' = n_channels
       \/ \E severity \in NotifySeverities, on_call \in BOOLEAN :
            /\ n_error' = severity
            /\ n_channels' = SelectChannels(severity)
            /\ n_results' = NoKeys
            /\ n_pc' = IF on_call THEN "sending" ELSE "returned"
    /\ UNCHANGED <<n_pos, n_attempts, notifications>>
    /\ UNCHANGED non_notify_vars

\* one iteration of the for loop of send_notification: the unknown channel is
\* skipped; the known one is sent on, its result stored, and the
\* ErrorNotification row created
SendChannel ==
    /\ n_pc = "sending"
    /\ n_pos <= Len(n_channels)
    /\ LET channel_name == n_channels[n_pos]
           after == IF n_pos = Len(n_channels) THEN "returned" ELSE "sending"
       IN  IF channel_name \notin channels
           THEN /\ n_pos' = n_pos + 1
                /\ n_pc' = after
                /\ UNCHANGED <<n_results, n_attempts, notifications>>
           ELSE \E success \in BOOLEAN :
                  /\ n_attempts' = Append(n_attempts, [channel |-> channel_name,
                                                       success |-> success])
                  /\ n_results' = Put(n_results, channel_name, success)
                  /\ IF ModelAccepts(CreateKwargs(success))
                     THEN /\ notifications' =
                                Append(notifications,
                                       [channel |-> channel_name,
                                        status  |-> IF success THEN "sent" ELSE "failed",
                                        retry_count |-> 0])
                          /\ n_pos' = n_pos + 1
                          /\ n_pc' = after
                     ELSE /\ n_pc' = "raised"
                          /\ UNCHANGED <<n_pos, notifications>>
    /\ UNCHANGED <<n_caller, n_error, n_channels>>
    /\ UNCHANGED non_notify_vars

NextNotify ==
    \/ SendNotification
    \/ NotifyDevelopers
    \/ SendChannel

SpecNotify == Init /\ [][NextNotify]_vars

\* the number of calls of channel.send for a channel
Attempts(channel_name) ==
    Cardinality({k \in 1..Len(n_attempts) : n_attempts[k].channel = channel_name})

\* C17 as stated: in send_notification the failure of one channel does not
\* block the other requested channels and does not raise to the caller:
\* every requested known channel is attempted exactly once and the result
\* maps each of them to its own success or failure.
C17_ChannelsIndependent ==
    /\ n_pc # "raised"
    /\ (n_pc = "returned" /\ n_caller = "direct" /\ n_error # "DoesNotExist") =>
          \A c \in Range(n_channels) \cap channels :
             /\ Attempts(c) = 1
             /\ c \in DOMAIN n_results
             /\ \E k \in 1..Len(n_attempts) :
                   /\ n_attempts[k].channel = c
                   /\ n_attempts[k].success = n_results[c]

\* notify_developers has chosen the channels for an error it found
ChannelsSelected == n_caller = "notify_developers" /\ n_error # "DoesNotExist"

WorkerEvents ==
    {[error_type |-> "DatabaseError", service |-> "nginx",
      severity |-> "critical", frequency |-> MaxFreq],
     [error_type |-> "ConnectionError", service |-> "django",
      severity |-> "high", frequency |-> 1],
     [error_type |-> "UnknownType", service |-> "laravel",
      severity |-> "low", frequency |-> 1]}

\* one analyzer and one executor object for the whole process, handed to
\* every worker
InstanceOf_singleton(w) == 1

\* ErrorAnalyzer(error_log), AutoRecoveryExecutor(error_log): the object a
\* worker's invocation constructs is its own
InstanceOf(w) == w

\* the result dict execute_recovery starts from
FreshResult ==
    [actions_executed |-> <<>>, actions_failed |-> <<>>,
     recovery_success |-> FALSE, recovery_message |-> ""]

\* _trigger_ai_recovery: analyzer = ErrorAnalyzer(error_log)
WReceive(w) ==
    /\ w_pc[w] = "idle"
    /\ \E ev \in WorkerEvents :
         /\ \A v \in Workers \ {w} : w_event[v] # ev
         /\ w_event' = [w_event EXCEPT ![w] = ev]
         /\ analyzer_self' = [analyzer_self EXCEPT ![InstanceOf(w)] = ev]
    /\ w_pc' = [w_pc EXCEPT ![w] = "received"]
    /\ UNCHANGED <<executor_self, w_analysis, w_order, w_pos, w_result, w_behaviours,
                   class_attrs>>
    /\ UNCHANGED non_worker_vars

\* analysis = analyzer.analyze_error()
WAnalyze(w) ==
    /\ w_pc[w] = "received"
    /\ w_analysis' = [w_analysis EXCEPT
                        ![w] = analyze_error(analyzer_self[InstanceOf(w)])]
    /\ w_pc' = [w_pc EXCEPT ![w] = "classified"]
    /\ UNCHANGED <<w_event, analyzer_self, executor_self, w_order, w_pos, w_result,
                   w_behaviours, class_attrs>>
    /\ UNCHANGED non_worker_vars

\* executor = AutoRecoveryExecutor(error_log), and execute_recovery up to the
\* for loop
WStart(w) ==
    /\ w_pc[w] = "classified"
    /\ executor_self' = [executor_self EXCEPT ![InstanceOf(w)] = w_event[w]]
    /\ LET actions == Get(w_analysis[w], "recovery_actions", <<>>)
       IN  IF actions = <<>>
           THEN /\ w_result' = [w_result EXCEPT
                                  ![w] = [FreshResult EXCEPT !.recovery_message =
                                                "No recovery actions available"]]
                /\ w_order' = [w_order EXCEPT ![w] = <<>>]
                /\ w_pc' = [w_pc EXCEPT ![w] = "done"]
           ELSE /\ w_result' = [w_result EXCEPT ![w] = FreshResult]
                /\ w_order' = [w_order EXCEPT ![w] = sorted_by_priority(actions)]
                /\ w_pc' = [w_pc EXCEPT ![w] = "executing"]
    /\ UNCHANGED <<w_event, analyzer_self, w_analysis, w_pos, w_behaviours, class_attrs>>
    /\ UNCHANGED non_worker_vars

\* one iteration of the for loop of the worker's execute_recovery
WExecute(w) ==
    /\ w_pc[w] = "executing"
    /\ w_pos[w] <= Len(w_order[w])
    /\ \E behaviour \in ExecutorBehaviours :
         LET i           == w_order[w][w_pos[w]]
             action_data == w_analysis[w].recovery_actions[i]
             single      == _execute_single_action(executor_self[InstanceOf(w)],
                                                   action_data, behaviour)
             body        == LoopBody(w_result[w], action_data, i, single.execution,
                                     w_pos[w] = Len(w_order[w]))
         IN  /\ w_behaviours' = [w_behaviours EXCEPT ![w] = Append(@, behaviour)]
             /\ w_result' = [w_result EXCEPT ![w] = body.result]
             /\ w_pos' = [w_pos EXCEPT ![w] = @ + 1]
             /\ w_pc' = [w_pc EXCEPT ![w] = IF body.done THEN "done" ELSE "executing"]
    /\ UNCHANGED <<w_event, analyzer_self, executor_self, w_analysis, w_order,
                   class_attrs>>
    /\ UNCHANGED non_worker_vars

NextWorkers ==
    \E w \in Workers :
        \/ WReceive(w)
        \/ WAnalyze(w)
        \/ WStart(w)
        \/ WExecute(w)

SpecWorkers == Init /\ [][NextWorkers]_vars

\* execute_recovery run alone from iteration k on, the strategy executors
\* behaving as listed: the report when the list of behaviours is used up
RECURSIVE RunAlone(_, _, _, _, _, _)
RunAlone(log, actions, ord, k, res, behaviours) ==
    IF k > Len(behaviours) \/ k > Len(ord)
    THEN res
    ELSE LET i      == ord[k]
             single == _execute_single_action(log, actions[i], behaviours[k])
             body   == LoopBody(res, actions[i], i, single.execution, k = Len(ord))
         IN  IF body.done THEN body.result
             ELSE RunAlone(log, actions, ord, k + 1, body.result, behaviours)

\* the report of an invocation for the event that runs alone
AloneReport(log, behaviours) ==
    LET actions == analyze_error(log).recovery_actions
    IN  RunAlone(log, actions, sorted_by_priority(actions), 1, FreshResult, behaviours)

\* C19: when invocations for different events run concurrently, under any
\* interleaving of their steps, the classification and the execution report
\* of each equal those it produces when run alone, and the static lookup
\* table shared by all instances is never modified.
C19_NoInterference ==
    /\ \A w \in Workers :
         /\ w_pc[w] \in {"classified", "executing", "done"} =>
                w_analysis[w] = analyze_error(w_event[w])
         /\ w_pc[w] \in {"executing", "done"} =>
                w_result[w] = AloneReport(w_event[w], w_behaviours[w])
    /\ class_attrs = [ERROR_RECOVERY_MAP |-> ERROR_RECOVERY_MAP]

\* two invocations for different events have both finished, one recovered
\* after a failed attempt and one exhausted every candidate
C19_Witness ==
    /\ w_pc[1] = "done"
    /\ w_pc[2] = "done"
    /\ w_event[1] # w_event[2]
    /\ w_result[1].recovery_success
    /\ Len(w_result[1].actions_failed) = 1
    /\ ~w_result[2].recovery_success
    /\ Len(w_result[2].actions_failed) = Len(w_analysis[2].recovery_actions)

(***************************************************************************)
(* Repeated runs of the analyzer on one event, under a clock that moves.   *)
(***************************************************************************)
\* the last instant the clock reaches
MaxClock == 2

\* the number of analyzers built for the event
MaxRuns == 2

\* the events the analyzer is run on repeatedly, with the fields of the
\* ErrorLog that analyze_error copies: error_id and the event's timestamp
RunEvents ==
    [error_id : {"e1"}, timestamp : {0, 1},
     error_type : {"DatabaseError", "UnknownType"}, service : {"django"},
     severity : {"critical", "low"}, frequency : {1, MaxFreq}]

\* an analyze_error that copies the analyzer's construction time into every
\* recovery action
analyze_error_stamped_actions(log, analysis_timestamp) ==
    IF IsNone(log) THEN NoKeys
    ELSE LET an == analyze_error(log)
         IN  [error_id |-> log.error_id,
              timestamp |-> log.timestamp,
              analysis_timestamp |-> analysis_timestamp]
             @@ [an EXCEPT !.recovery_actions =
                    [k \in 1..Len(an.recovery_actions) |->
                        an.recovery_actions[k] @@ [created_at |-> analysis_timestamp]]]

\* analyze_error with the keys that identify and date the result: error_id
\* and timestamp from the event, analysis_timestamp from the clock as
\* __init__ read it
analyze_error_dated(log, analysis_timestamp) ==
    IF IsNone(log) THEN NoKeys
    ELSE [error_id |-> log.error_id,
          timestamp |-> log.timestamp,
          analysis_timestamp |-> analysis_timestamp]
         @@ analyze_error(log)

\* an error event is recorded
RecordEvent ==
    /\ IsNone(r_event)
    /\ r_event' \in RunEvents
    /\ r_event0' = r_event'
    /\ UNCHANGED <<r_now, r_stamp, r_runs>>
    /\ UNCHANGED non_run_vars

\* time passes
Tick ==
    /\ r_now < MaxClock
    /\ r_now' = r_now + 1
    /\ UNCHANGED <<r_event, r_event0, r_stamp, r_runs>>
    /\ UNCHANGED non_run_vars

\* ErrorAnalyzer(error_log): self.analysis_timestamp = timezone.now()
Construct ==
    /\ ~IsNone(r_event)
    /\ r_stamp = NoStamp
    /\ Len(r_runs) < MaxRuns
    /\ r_stamp' = r_now
    /\ UNCHANGED <<r_now, r_event, r_event0, r_runs>>
    /\ UNCHANGED non_run_vars

\* analyzer.analyze_error(): the dict is returned; no attribute of the
\* ErrorLog is assigned
AnalyzeRun ==
    /\ r_stamp # NoStamp
    /\ r_runs' = Append(r_runs, analyze_error_dated(r_event, r_stamp))
    /\ r_stamp' = NoStamp
    /\ UNCHANGED <<r_now, r_event, r_event0>>
    /\ UNCHANGED non_run_vars

NextRuns ==
    \/ RecordEvent
    \/ Tick
    \/ Construct
    \/ AnalyzeRun

SpecRuns == Init /\ [][NextRuns]_vars

\* a result dict without one of its keys
Without(d, key) == [k \in DOMAIN d \ {key} |-> d[k]]

\* C20 as stated: analyze_error is deterministic and free of side effects:
\* two runs on identical events return identical results, which depend on no
\* clock other than the event's own timestamp, and the event is unchanged.
C20_AsStated ==
    /\ \A i, j \in 1..Len(r_runs) : r_runs[i] = r_runs[j]
    /\ r_event = r_event0

\* C20 amended: two runs on identical events return results that are
\* identical in every key except analysis_timestamp, which is the time the
\* analyzer was constructed; the timestamp key is the event's own; the event
\* is unchanged.
C20_Amended ==
    /\ \A i, j \in 1..Len(r_runs) :
         Without(r_runs[i], "analysis_timestamp") = Without(r_runs[j], "analysis_timestamp")
    /\ \A i \in 1..Len(r_runs) : r_runs[i].timestamp = r_event.timestamp
    /\ r_event = r_event0

\* two runs on the same event, built at different instants
C20_Witness ==
    /\ Len(r_runs) = 2
    /\ r_runs[1].analysis_timestamp # r_runs[2].analysis_timestamp
    /\ r_runs[1].recovery_actions = r_runs[2].recovery_actions

(***************************************************************************)
(* Properties of the classifier, field by field.                           *)
(***************************************************************************)
\* the severity bonus as the specification lists it, in thousandths
StatedBonus(severity) ==
    CASE severity = "critical" -> 250
      [] severity = "high"     -> 150
      [] severity = "medium"   -> 50
      [] OTHER                 -> 0

\* C21: the confidence is 0.5, plus 0.2 when the error type is in the known
\* category table, plus the severity bonus (critical 0.25, high 0.15, medium
\* 0.05, low 0.0), capped at 0.95; it lies between 0.5 and 0.95 inclusive.
C21_ConfidenceFormula ==
    Analyzed =>
        LET sum == 500
                   + (IF error_log.error_type \in DOMAIN ERROR_RECOVERY_MAP THEN 200 ELSE 0)
                   + StatedBonus(error_log.severity)
        IN  /\ analysis.ml_confidence = (IF sum > 950 THEN 950 ELSE sum)
            /\ analysis.ml_confidence >= 500
            /\ analysis.ml_confidence <= 950

\* a known error type of critical severity: the confidence reaches the cap
C21_Witness ==
    /\ Analyzed
    /\ error_log.error_type = "TimeoutError"
    /\ error_log.severity = "critical"
    /\ analysis.ml_confidence = 950

\* C22: if severity is critical the pattern is critical_error with priority
\* CRITICAL whatever the frequency; otherwise if frequency is greater than 3
\* the pattern is repeated_errors with priority HIGH; otherwise there is no
\* pattern and the recommended priority is the MEDIUM default.
C22_PatternDetection ==
    Analyzed =>
        IF error_log.severity = "critical"
        THEN /\ analysis.pattern_match = "critical_error"
             /\ analysis.recommended_priority = "CRITICAL"
        ELSE IF error_log.frequency > 3
        THEN /\ analysis.pattern_match = "repeated_errors"
             /\ analysis.recommended_priority = "HIGH"
        ELSE /\ analysis.pattern_match = "None"
             /\ analysis.recommended_priority = "MEDIUM"

\* the frequency is exactly 3 and the severity is not critical: no pattern
C22_Witness ==
    /\ Analyzed
    /\ error_log.severity = "high"
    /\ error_log.frequency = 3
    /\ analysis.pattern_match = "None"

\* C23: the priority of the action at position k is CRITICAL for every k when
\* the severity is critical; for high severity it is HIGH for k = 0 and
\* MEDIUM for k > 0; for every other severity MEDIUM for k = 0 and LOW for
\* k > 0.  So the executor's order never puts a later position before
\* position 0.
C23_ActionPriorities ==
    Analyzed =>
        /\ \A k \in 1..Len(analysis.recovery_actions) :
             analysis.recovery_actions[k].priority =
                 IF error_log.severity = "critical" THEN "CRITICAL"
                 ELSE IF error_log.severity = "high"
                 THEN (IF k = 1 THEN "HIGH" ELSE "MEDIUM")
                 ELSE (IF k = 1 THEN "MEDIUM" ELSE "LOW")
        /\ pc \in {"executing", "done"} => order[1] = 1

\* a critical event with three actions, being executed in table order
C23_Witness ==
    /\ Analyzed
    /\ error_log.severity = "critical"
    /\ pc = "executing"
    /\ Len(analysis.recovery_actions) = 3
    /\ order = <<1, 2, 3>>

\* execute_recovery has returned from a run for an error event, on a
\* non-empty list of candidates that all have an executor, and every executor
\* called was the shipped one
ShippedRun ==
    /\ pc = "done"
    /\ ~IsNone(error_log)
    /\ InputActions # <<>>
    /\ \A k \in 1..Len(InputActions) : InputActions[k].strategy \in RecoveryStrategy
    /\ \A k \in 1..Len(invoked) : invoked[k].behaviour = "shipped"

\* C26: with the shipped strategy executors, which all report success, every
\* run of execute_recovery on a non-empty candidate list attempts exactly one
\* action, the first in priority order, reports recovery_success true and
\* leaves actions_failed empty, for every error event.
C26_ShippedExecutorsSucceed ==
    ShippedRun =>
        /\ Len(invoked) = 1
        /\ invoked[1].input_index = order[1]
        /\ result.recovery_success
        /\ Len(result.actions_executed) = 1
        /\ result.actions_executed[1].input_index = order[1]
        /\ result.actions_failed = <<>>

\* a run on the classifier's two candidates for a validation error, the
\* first of which is the fallback
C26_Witness ==
    /\ ShippedRun
    /\ Analyzed
    /\ error_log.error_type = "ValidationError"
    /\ Len(order) = 2
    /\ result.actions_executed[1].strategy = "fallback"

(***************************************************************************)
(* The classifier on events whose severity is outside the four levels.     *)
(***************************************************************************)
\* the severities an ErrorLog row can carry: the choices of the model, and
\* the empty string that a CharField accepts without validation
AnySeverities == SEVERITY_CHOICES \cup {""}

AnyErrorLogs ==
    [error_type : ErrorTypes, service : Services,
     severity : AnySeverities, frequency : 1..MaxFreq]

\* ErrorAnalyzer(error_log) for an event of any severity
ReceiveAnyEvent ==
    /\ pc = "idle"
    /\ error_log' \in AnyErrorLogs
    /\ pc' = "received"
    /\ UNCHANGED <<analysis, order, pos, result, invoked>>
    /\ UNCHANGED <<stages, pipeline_vars>>
    /\ UNCHANGED other_vars

NextClassify ==
    \/ ReceiveAnyEvent
    \/ Analyze

SpecClassify == Init /\ [][NextClassify]_vars

\* the priorities of the actions of an analysis
ActionPriorities(an) ==
    [k \in 1..Len(an.recovery_actions) |-> an.recovery_actions[k].priority]

\* the analysis of the same event with another severity
Twin(severity) == analyze_error([error_log EXCEPT !.severity = severity])

\* the confidence, pattern and action priorities of two analyses are the same
SameTreatment(an, other) ==
    /\ an.ml_confidence = other.ml_confidence
    /\ an.pattern_match = other.pattern_match
    /\ an.recommended_priority = other.recommended_priority
    /\ ActionPriorities(an) = ActionPriorities(other)

\* the classifier has run on an event whose severity is none of the four levels
OddSeverity ==
    /\ pc = "classified"
    /\ error_log.severity \notin {"critical", "high", "medium", "low"}

\* C24 as stated: the classifier always returns a result, and an unknown or
\* malformed severity ('info', an empty string) is treated exactly as
\* 'medium': the same confidence, pattern and action priorities as a medium
\* event with the same error type and frequency.
C24_AsStated ==
    /\ pc = "classified" => Analyzed
    /\ OddSeverity => SameTreatment(analysis, Twin("medium"))

\* C24 amended: the classifier always returns a result, and an unknown or
\* malformed severity is treated exactly as 'low': the same confidence (no
\* severity bonus), pattern and action priorities; pattern and priorities are
\* also those of a medium event, the confidence is 0.05 below it.
C24_Amended ==
    /\ pc = "classified" => Analyzed
    /\ OddSeverity =>
         /\ SameTreatment(analysis, Twin("low"))
         /\ analysis.pattern_match = Twin("medium").pattern_match
         /\ analysis.recommended_priority = Twin("medium").recommended_priority
         /\ ActionPriorities(analysis) = ActionPriorities(Twin("medium"))
         /\ analysis.ml_confidence = Twin("medium").ml_confidence - 50

\* an event with an empty severity has been classified
C24_Witness ==
    /\ OddSeverity
    /\ error_log.severity = ""
    /\ error_log.error_type = "APIError"
    /\ analysis.ml_confidence = 700

\* the escalation recipients _get_recipients reads from settings
EscalationRecipients == Get(settings, "ERROR_ESCALATION_RECIPIENTS", <<>>)

\* C25: escalation recipients are added to the alert recipient list exactly
\* when severity is critical or high, as a union with duplicates removed; for
\* every other severity the list is the default configured list and holds no
\* recipient that appears only in the escalation list.
C25_EscalationBySeverity ==
    alert.attempted =>
        IF analysis.severity \in {"critical", "high"}
        THEN /\ Range(alert.recipients)
                  = Range(DefaultRecipients) \cup Range(EscalationRecipients)
             /\ NoDuplicates(alert.recipients)
        ELSE /\ alert.recipients = DefaultRecipients
             /\ Range(alert.recipients) \cap
                  (Range(EscalationRecipients) \ Range(DefaultRecipients)) = {}

\* a high-severity event alerted to a default and an escalation-only recipient
C25_Witness ==
    /\ alert.attempted
    /\ analysis.severity = "high"
    /\ Range(EscalationRecipients) \ Range(DefaultRecipients) # {}
    /\ Len(alert.recipients) = 2

\* __exit__ of the recovery context manager has returned
ContextDone == entry = "context" /\ mw = "returned"

\* C30: __exit__ suppresses the exception raised in its block if and only if
\* the recovery run for that exception reported recovery_success; when the
\* block raises nothing, or when error logging, analysis or execution fails,
\* it returns False and the original exception propagates.
C30_SuppressIffRecovered ==
    ContextDone =>
        /\ ret.kind = "bool"
        /\ ret.suppress <=> (HasReport /\ result.recovery_success)
        /\ ret.suppress <=> ("RECOVERED" \in Range(stages))
        /\ exc = "None" => ~ret.suppress
        /\ stages = <<>> => ~ret.suppress

\* the block raised, every candidate failed, and the exception is not suppressed
C30_Witness ==
    /\ ContextDone
    /\ exc = "ValueError"
    /\ HasReport
    /\ ~result.recovery_success
    /\ Len(result.actions_failed) = 2
    /\ ~ret.suppress

(***************************************************************************)
(* The periodic retry of failed notifications                              *)
(* (services.py: retry_failed_notifications; tasks.py: the Celery task     *)
(* that runs it every hour).                                               *)
(***************************************************************************)

\* most ErrorNotification rows the table holds when the first run starts
MaxRows == 2

\* retry_failed_notifications: retry_count__lt=3
RetryLimit == 3

\* the rows the table can hold: the channel, the status and the retry count
\* of each (STATUS_CHOICES narrowed to the two values the retry reads or writes)
NotificationRows ==
    [channel : {"email", "slack"}, status : {"sent", "failed"}, retry_count : 0..RetryLimit]

\* ErrorNotification.objects.filter(status='failed', retry_count__lt=3), as row indices
FailedNotifications(table) ==
    {i \in DOMAIN table : table[i].status = "failed" /\ table[i].retry_count < RetryLimit}

\* reading notification.<name>: AttributeError unless the model has the field
HasAttribute(name) == name \in ErrorNotificationFields

\* the for loop of retry_failed_notifications from row i on, on the rows the
\* filter selected; successes[i] is what channel.send returns for row i.
\* The arguments of send_notification are evaluated first (notification.recipient),
\* then send_notification creates its row, then the retried row is saved.
RECURSIVE RetryLoop(_, _, _, _)
RetryLoop(table, selected, i, successes) ==
    IF i > Len(successes) THEN [table |-> table, outcome |-> "returned"]
    ELSE IF i \notin selected THEN RetryLoop(table, selected, i + 1, successes)
    ELSE IF ~HasAttribute("recipient") THEN [table |-> table, outcome |-> "raised"]
    ELSE IF ~ModelAccepts(CreateKwargs(successes[i]))
         THEN [table |-> table, outcome |-> "raised"]
    ELSE LET created == [channel |-> table[i].channel,
                         status |-> IF successes[i] THEN "sent" ELSE "failed",
                         retry_count |-> 0]
             saved == IF successes[i]
                      THEN [table[i] EXCEPT !.status = "sent"]
                      ELSE [table[i] EXCEPT !.retry_count = @ + 1]
         IN  RetryLoop(Append([table EXCEPT ![i] = saved], created),
                       selected, i + 1, successes)

\* the rows the table holds before the first run
InitRetry ==
    /\ NothingRan
    /\ notifications \in UNION {[1..n -> NotificationRows] : n \in 0..MaxRows}

\* one run of the Celery task retry_failed_notifications: the service method
\* from the filter to its return or to the exception the task re-raises
RetryTask ==
    /\ \E successes \in [DOMAIN notifications -> BOOLEAN] :
         LET run == RetryLoop(notifications, FailedNotifications(notifications),
                              1, successes)
         IN  /\ notifications' = run.table
             /\ t_outcome' = run.outcome
    /\ t_runs' = (t_runs + 1) % 2
    /\ UNCHANGED non_task_vars

NextRetry ==
    \/ RetryTask

\* the task is scheduled every hour: a run is always taken again
SpecRetry == InitRetry /\ [][NextRetry]_vars /\ WF_vars(RetryTask)

STATUS_CHOICES == {"pending", "processing", "completed", "failed"}

\* @shared_task(bind=True, max_retries=3)
max_retries == 3

\* where an attempt of process_unified_event raises: nowhere, in
\* UnifiedEvent.objects.get (a database error, the row exists), after the
\* event was saved as 'processing' (the connections query, the orchestrator),
\* or in update_system_state.delay after the event was saved as 'completed'
RaisePoints == {"nowhere", "get", "processing", "delay"}

\* raise self.retry(exc=exc, ..): Celery queues the task again with
\* request.retries + 1, or re-raises exc when max_retries is reached
Retry(retries) ==
    IF retries < max_retries
    THEN [task |-> "queued", retries |-> retries + 1]
    ELSE [task |-> "gave_up", retries |-> retries]

\* process_scheduled_events: an event is created as 'pending' and
\* process_unified_event is queued for it
ProcessScheduledEvents(e) ==
    /\ ev_task[e] = "none"
    /\ ev_status' = [ev_status EXCEPT ![e] = "pending"]
    /\ ev_task' = [ev_task EXCEPT ![e] = "queued"]
    /\ ev_retries' = [ev_retries EXCEPT ![e] = 0]
    /\ UNCHANGED ev_update
    /\ UNCHANGED non_event_vars

\* one attempt of process_unified_event for event e, from the get to the
\* return or to the except clause
ProcessUnifiedEvent(e) ==
    /\ ev_task[e] = "queued"
    /\ \E raised \in RaisePoints, successful_routes \in 0..1 :
         LET retry == Retry(ev_retries[e])
         IN  /\ ev_status' = [ev_status EXCEPT ![e] =
                     CASE raised = "get"        -> @
                       [] raised = "processing" -> "processing"
                       [] OTHER                 -> "completed"]
             /\ ev_update' = [ev_update EXCEPT ![e] =
                     IF raised = "nowhere"
                     THEN Append(@, [total_events |-> 1,
                                     failed_events |-> IF successful_routes > 0
                                                       THEN 0 ELSE 1])
                     ELSE @]
             /\ ev_task' = [ev_task EXCEPT ![e] =
                     IF raised = "nowhere" THEN "done" ELSE retry.task]
             /\ ev_retries' = [ev_retries EXCEPT ![e] =
                     IF raised = "nowhere" THEN @ ELSE retry.retries]
    /\ UNCHANGED non_event_vars

\* process_failed_events_retry: every event whose status is 'failed' is set
\* back to 'pending' and process_unified_event is queued for it
ProcessFailedEventsRetry ==
    /\ ev_status' = [e \in Events |->
                        IF ev_status[e] = "failed" THEN "pending" ELSE ev_status[e]]
    /\ ev_task' = [e \in Events |->
                        IF ev_status[e] = "failed" THEN "queued" ELSE ev_task[e]]
    /\ ev_retries' = [e \in Events |->
                        IF ev_status[e] = "failed" THEN 0 ELSE ev_retries[e]]
    /\ UNCHANGED ev_update
    /\ UNCHANGED non_event_vars

NextEvents ==
    \/ \E e \in Events : ProcessScheduledEvents(e)
    \/ \E e \in Events : ProcessUnifiedEvent(e)
    \/ ProcessFailedEventsRetry

\* a worker takes every queued task, and the periodic tasks keep running
SpecEvents ==
    /\ Init
    /\ [][NextEvents]_vars
    /\ \A e \in Events : WF_vars(ProcessUnifiedEvent(e))
    /\ WF_vars(ProcessFailedEventsRetry)

\* C28: every event process_unified_event has marked 'processing' eventually
\* is 'completed' or 'failed', and an event whose task gave up after its
\* retries eventually is 'failed', the status process_failed_events_retry selects
C28_ProcessingEnds ==
    \A e \in Events :
        /\ (ev_status[e] = "processing") ~> (ev_status[e] \in {"completed", "failed"})
        /\ (ev_task[e] = "gave_up") ~> (ev_status[e] = "failed")

(***************************************************************************)
(* The system-state counters (api/tasks_unified.py: update_system_state).  *)
(* The task loads the row with id 1, adds its arguments to the loaded      *)
(* object and saves the object; Celery runs invocations on several         *)
(* workers, so one worker's load and save interleave with another's.       *)
(***************************************************************************)

\* most invocations of update_system_state in one behaviour
MaxUpdates == 3

\* the arguments process_unified_event queues the task with:
\* total_events=1, failed_events=0 if successful_routes > 0 else 1
UpdateArgs == [total_events : {1}, failed_events : {0, 1}]

\* system_state.total_events_processed += total_events;
\* system_state.total_events_failed += failed_events
AddEvents(system_state, args) ==
    [total_events_processed |-> system_state.total_events_processed + args.total_events,
     total_events_failed    |-> system_state.total_events_failed + args.failed_events]

\* worker w starts an invocation: UnifiedSystemState.objects.get_or_create(id=1)
\* loads the row into the worker's system_state object
LoadState(w) ==
    /\ u_pc[w] = "idle"
    /\ u_sum.total_events < MaxUpdates
    /\ \E args \in UpdateArgs :
         /\ u_args' = [u_args EXCEPT ![w] = args]
         /\ u_sum' = [total_events  |-> u_sum.total_events + args.total_events,
                      failed_events |-> u_sum.failed_events + args.failed_events]
    /\ u_local' = [u_local EXCEPT ![w] = db_state]
    /\ u_pc' = [u_pc EXCEPT ![w] = "loaded"]
    /\ UNCHANGED db_state
    /\ UNCHANGED non_state_vars

\* worker w finishes its invocation: the counters are added on the loaded
\* object and system_state.save() writes the object's fields to the row
SaveState(w) ==
    /\ u_pc[w] = "loaded"
    /\ db_state' = AddEvents(u_local[w], u_args[w])
    /\ u_pc' = [u_pc EXCEPT ![w] = "idle"]
    /\ UNCHANGED <<u_local, u_args, u_sum>>
    /\ UNCHANGED non_state_vars

NextState ==
    \/ \E w \in Updaters : LoadState(w)
    \/ \E w \in Updaters : SaveState(w)

SpecState == Init /\ [][NextState]_vars

\* C29: once every invocation of update_system_state has returned, the two
\* counters are the sums of the invocations' arguments, and the failed
\* counter never exceeds the processed one
C29_NoLostUpdate ==
    /\ db_state.total_events_failed <= db_state.total_events_processed
    /\ (\A w \in Updaters : u_pc[w] = "idle") =>
          /\ db_state.total_events_processed = u_sum.total_events
          /\ db_state.total_events_failed = u_sum.failed_events

====
